---- MODULE Spec2Model ----
(***************************************************************************)
(* Model of the recording pipeline of polymarket_recorder:                 *)
(*   - CLOBClient (src/data/clients.py): subscription registry, quote      *)
(*     normaliser (_parse_market_data, _send_update);                      *)
(*   - DataRecorder and DBWriter (src/data_recorder.py): feed callbacks,   *)
(*     market rotation, snapshot sampler, persistence queue.               *)
(*                                                                         *)
(* Prices are integers in units of 1e-5, one decimal finer than the        *)
(* 4-decimal precision the code rounds to, so that round(x, 4) is not the  *)
(* identity.  round() follows Python's documented rule: nearest multiple,  *)
(* ties to the even one.                                                   *)
(***************************************************************************)
EXTENDS Integers, Sequences, FiniteSets, TLC

(***************************************************************************)
(* Values                                                                  *)
(***************************************************************************)
One == 100000            \* the literal 1.0 of _send_update, in price units
Unit4 == 10              \* one step of the 4th decimal, in price units
NoneV == -1              \* Python None in a stored bid/ask
Null == -2               \* a JSON null / empty string / missing key (falsy)
Bad == -3                \* a non-numeric string: truthy, float() raises
NoToken == 0             \* a missing asset id
NoSlug == "none"         \* Python None where a slug is expected

NoPrices == [bid |-> NoneV, ask |-> NoneV, mid |-> NoneV]   \* up_prices = None

(***************************************************************************)
(* Bounds of the model                                                     *)
(***************************************************************************)
MaxQueue == 2            \* tasks waiting in DBWriter.queue
MaxMsgs == 3             \* items the quote feed delivers in one behaviour

Slugs15 == {"15m-a", "15m-b"}
Slugs5 == {"5m-a"}
Slugs == Slugs15 \cup Slugs5
Tokens == 1..7

Range(s) == {s[i] : i \in 1..Len(s)}

(***************************************************************************)
(* round(x, 4) and the mid price                                           *)
(***************************************************************************)
RoundTo(x, m) ==
    LET q == x \div m
        r == x % m
    IN  IF 2 * r < m THEN q * m
        ELSE IF 2 * r > m THEN (q + 1) * m
        ELSE IF q % 2 = 0 THEN q * m ELSE (q + 1) * m

Round4(x) == RoundTo(x, Unit4)

\* round((bid + ask) / 2, 4)
RoundMid(bid, ask) == RoundTo(bid + ask, 2 * Unit4) \div 2

(***************************************************************************)
(* CLOBClient: registry                                                    *)
(***************************************************************************)
NewMarket(token_ids) ==
    [tokens |-> token_ids, up_bid |-> NoneV, up_ask |-> NoneV,
     down_bid |-> NoneV, down_ask |-> NoneV]

\* set_market without the early return for an unchanged registration
SetMarketOp_Always(st, token_ids, market_slug) ==
    [markets |->
        [s \in DOMAIN st.markets \cup {market_slug} |->
            IF s = market_slug THEN NewMarket(token_ids) ELSE st.markets[s]],
     token_to_slug |->
        [t \in DOMAIN st.token_to_slug \cup Range(token_ids) |->
            IF t \in Range(token_ids) THEN market_slug
            ELSE st.token_to_slug[t]],
     need_resubscribe |-> TRUE]

\* st = [markets, token_to_slug, need_resubscribe]
SetMarketOp(st, token_ids, market_slug) ==
    IF market_slug \in DOMAIN st.markets
       /\ st.markets[market_slug].tokens = token_ids
    THEN st
    ELSE [markets |->
             [s \in DOMAIN st.markets \cup {market_slug} |->
                 IF s = market_slug THEN NewMarket(token_ids)
                 ELSE st.markets[s]],
          token_to_slug |->
             [t \in DOMAIN st.token_to_slug \cup Range(token_ids) |->
                 IF t \in Range(token_ids) THEN market_slug
                 ELSE st.token_to_slug[t]],
          need_resubscribe |-> TRUE]

RemoveMarketOp(st, market_slug) ==
    IF market_slug \in DOMAIN st.markets
    THEN LET toks == Range(st.markets[market_slug].tokens)
         IN [markets |->
                [s \in DOMAIN st.markets \ {market_slug} |-> st.markets[s]],
             token_to_slug |->
                [t \in DOMAIN st.token_to_slug \ toks |-> st.token_to_slug[t]],
             need_resubscribe |-> TRUE]
    ELSE st

(***************************************************************************)
(* CLOBClient: quote normaliser                                            *)
(***************************************************************************)
\* a side counted as quoted as soon as one of its two fields is stored
Complete_Either(bid, ask) == bid # NoneV \/ ask # NoneV

Complete(bid, ask) == bid # NoneV /\ ask # NoneV

\* _send_update without the complementary fallback
SendUpdate_NoFallback(m) ==
    LET up0 == IF Complete(m.up_bid, m.up_ask)
               THEN [bid |-> Round4(m.up_bid), ask |-> Round4(m.up_ask),
                     mid |-> RoundMid(m.up_bid, m.up_ask)]
               ELSE NoPrices
        down0 == IF Complete(m.down_bid, m.down_ask)
                 THEN [bid |-> Round4(m.down_bid), ask |-> Round4(m.down_ask),
                       mid |-> RoundMid(m.down_bid, m.down_ask)]
                 ELSE NoPrices
    IN  [m |-> m, up |-> up0, down |-> down0,
         emit |-> (up0 # NoPrices \/ down0 # NoPrices)]

\* _send_update whose fallback does not swap bid and ask
SendUpdate_NotInverted(m) ==
    LET up0 == IF Complete(m.up_bid, m.up_ask)
               THEN [bid |-> Round4(m.up_bid), ask |-> Round4(m.up_ask),
                     mid |-> RoundMid(m.up_bid, m.up_ask)]
               ELSE NoPrices
        down0 == IF Complete(m.down_bid, m.down_ask)
                 THEN [bid |-> Round4(m.down_bid), ask |-> Round4(m.down_ask),
                       mid |-> RoundMid(m.down_bid, m.down_ask)]
                 ELSE NoPrices
    IN  IF up0 # NoPrices /\ down0 = NoPrices
        THEN LET down == [bid |-> Round4(One - m.up_bid),
                          ask |-> Round4(One - m.up_ask),
                          mid |-> Round4(One - up0.mid)]
             IN [m |-> [m EXCEPT !.down_bid = down.bid, !.down_ask = down.ask],
                 up |-> up0, down |-> down, emit |-> TRUE]
        ELSE IF down0 # NoPrices /\ up0 = NoPrices
        THEN LET up == [bid |-> Round4(One - m.down_bid),
                        ask |-> Round4(One - m.down_ask),
                        mid |-> Round4(One - down0.mid)]
             IN [m |-> [m EXCEPT !.up_bid = up.bid, !.up_ask = up.ask],
                 up |-> up, down |-> down0, emit |-> TRUE]
        ELSE [m |-> m, up |-> up0, down |-> down0,
              emit |-> (up0 # NoPrices \/ down0 # NoPrices)]

\* _send_update: [m: the market after the write-back, up, down, emit]
SendUpdate(m) ==
    LET up0 == IF Complete(m.up_bid, m.up_ask)
               THEN [bid |-> Round4(m.up_bid), ask |-> Round4(m.up_ask),
                     mid |-> RoundMid(m.up_bid, m.up_ask)]
               ELSE NoPrices
        down0 == IF Complete(m.down_bid, m.down_ask)
                 THEN [bid |-> Round4(m.down_bid), ask |-> Round4(m.down_ask),
                       mid |-> RoundMid(m.down_bid, m.down_ask)]
                 ELSE NoPrices
    IN  IF up0 # NoPrices /\ down0 = NoPrices
        THEN LET down == [bid |-> Round4(One - m.up_ask),
                          ask |-> Round4(One - m.up_bid),
                          mid |-> Round4(One - up0.mid)]
             IN [m |-> [m EXCEPT !.down_bid = down.bid, !.down_ask = down.ask],
                 up |-> up0, down |-> down, emit |-> TRUE]
        ELSE IF down0 # NoPrices /\ up0 = NoPrices
        THEN LET up == [bid |-> Round4(One - m.down_ask),
                        ask |-> Round4(One - m.down_bid),
                        mid |-> Round4(One - down0.mid)]
             IN [m |-> [m EXCEPT !.up_bid = up.bid, !.up_ask = up.ask],
                 up |-> up, down |-> down0, emit |-> TRUE]
        ELSE [m |-> m, up |-> up0, down |-> down0,
              emit |-> (up0 # NoPrices \/ down0 # NoPrices)]

Truthy(v) == v # Null
FloatRaises(v) == v \in {Null, Bad}

\* which side of market m the asset is: tokens[0] is UP, tokens[1] is DOWN;
\* indexing an empty token list raises
SideOf(m, asset_id) ==
    IF Len(m.tokens) = 0 THEN "raise"
    ELSE IF asset_id = m.tokens[1] THEN "up"
    ELSE IF Len(m.tokens) > 1 /\ asset_id = m.tokens[2] THEN "down"
    ELSE "none"

BidField(sd) == IF sd = "up" THEN "up_bid" ELSE "down_bid"
AskField(sd) == IF sd = "up" THEN "up_ask" ELSE "down_ask"

\* the assignments of one side made only while the field is still None
WriteBidAsk_KeepFirst(m, sd, bid, ask) ==
    IF sd = "raise" THEN [m |-> m, raised |-> TRUE]
    ELSE IF sd = "none" THEN [m |-> m, raised |-> FALSE]
    ELSE IF Truthy(bid) /\ FloatRaises(bid) THEN [m |-> m, raised |-> TRUE]
    ELSE LET m1 == IF Truthy(bid) /\ m[BidField(sd)] = NoneV
                   THEN [m EXCEPT ![BidField(sd)] = bid] ELSE m
         IN  IF Truthy(ask) /\ FloatRaises(ask)
             THEN [m |-> m1, raised |-> TRUE]
             ELSE [m |-> IF Truthy(ask) /\ m[AskField(sd)] = NoneV
                         THEN [m1 EXCEPT ![AskField(sd)] = ask]
                         ELSE m1,
                   raised |-> FALSE]

\* the two conditional assignments of one side, in order; float() of the
\* ask is evaluated after the bid has been stored
WriteBidAsk(m, sd, bid, ask) ==
    IF sd = "raise" THEN [m |-> m, raised |-> TRUE]
    ELSE IF sd = "none" THEN [m |-> m, raised |-> FALSE]
    ELSE IF Truthy(bid) /\ FloatRaises(bid) THEN [m |-> m, raised |-> TRUE]
    ELSE LET m1 == IF Truthy(bid) THEN [m EXCEPT ![BidField(sd)] = bid] ELSE m
         IN  IF Truthy(ask) /\ FloatRaises(ask)
             THEN [m |-> m1, raised |-> TRUE]
             ELSE [m |-> IF Truthy(ask) THEN [m1 EXCEPT ![AskField(sd)] = ask]
                         ELSE m1,
                   raised |-> FALSE]

\* a price_change that moves the bid only
WritePrice_BidOnly(m, sd, price) ==
    IF sd = "raise" THEN [m |-> m, raised |-> TRUE]
    ELSE IF sd = "none" THEN [m |-> m, raised |-> FALSE]
    ELSE [m |-> [m EXCEPT ![BidField(sd)] = price], raised |-> FALSE]

\* price_change / last_trade_price: the price is both bid and ask
WritePrice(m, sd, price) ==
    IF sd = "raise" THEN [m |-> m, raised |-> TRUE]
    ELSE IF sd = "none" THEN [m |-> m, raised |-> FALSE]
    ELSE [m |-> [m EXCEPT ![BidField(sd)] = price, ![AskField(sd)] = price],
          raised |-> FALSE]

Get(data, k) == IF k \in data.keys THEN data[k] ELSE Null

\* best level of an order-book side: the last entry of the list, None if empty
LastLevel(levels) == IF Len(levels) = 0 THEN Null ELSE levels[Len(levels)]

\* a float is truthy unless it is None or 0.0
FloatTruthy(v) == v # Null /\ v # 0

\* the writes of _parse_market_data for a quote event addressed to market m:
\* [m, updated (price_updated), raised]
ParseQuote(m, data) ==
    LET sd == SideOf(m, data.asset_id)
        p1 == "best_bid" \in data.keys \/ "best_ask" \in data.keys
        p2 == ~p1 /\ "price" \in data.keys
        p3 == ~p1 /\ ~p2 /\ "last_trade_price" \in data.keys
        first ==
            IF p1
            THEN LET bb == Get(data, "best_bid")
                     ba == Get(data, "best_ask")
                 IN  IF Truthy(bb) \/ Truthy(ba)
                     THEN LET w == WriteBidAsk(m, sd, bb, ba)
                          IN [m |-> w.m, updated |-> ~w.raised,
                              raised |-> w.raised]
                     ELSE [m |-> m, updated |-> FALSE, raised |-> FALSE]
            ELSE IF p2 \/ p3
            THEN LET v == IF p2 THEN data.price ELSE data.last_trade_price
                 IN  IF FloatRaises(v)
                     THEN [m |-> m, updated |-> FALSE, raised |-> TRUE]
                     ELSE IF v > 0
                     THEN LET w == WritePrice(m, sd, v)
                          IN [m |-> w.m, updated |-> ~w.raised,
                              raised |-> w.raised]
                     ELSE [m |-> m, updated |-> FALSE, raised |-> FALSE]
            ELSE [m |-> m, updated |-> FALSE, raised |-> FALSE]
    IN  IF first.raised \/ first.updated
           \/ ~("bids" \in data.keys /\ "asks" \in data.keys)
        THEN first
        ELSE LET bb == LastLevel(data.bids)
                 ba == LastLevel(data.asks)
             IN  IF bb = Bad \/ ba = Bad
                 THEN [m |-> m, updated |-> FALSE, raised |-> TRUE]
                 ELSE IF FloatTruthy(bb) \/ FloatTruthy(ba)
                 THEN LET w == WriteBidAsk(m, sd,
                                   IF FloatTruthy(bb) THEN bb ELSE Null,
                                   IF FloatTruthy(ba) THEN ba ELSE Null)
                      IN [m |-> w.m, updated |-> ~w.raised,
                          raised |-> w.raised]
                 ELSE [m |-> m, updated |-> FALSE, raised |-> FALSE]

NoUpdate == [slug |-> NoSlug, up |-> NoPrices, down |-> NoPrices]
NoResolved == [slug |-> NoSlug, winner |-> NoToken]

\* slug of a market-resolved event: the reverse index first, then a scan of
\* the registry
ResolvedSlug(st, winning_asset_id) ==
    IF winning_asset_id \in DOMAIN st.token_to_slug
    THEN st.token_to_slug[winning_asset_id]
    ELSE LET holders == {s \in DOMAIN st.markets :
                            winning_asset_id \in Range(st.markets[s].tokens)}
         IN IF holders = {} THEN NoSlug ELSE CHOOSE s \in holders : TRUE

\* _parse_market_data on one decoded item:
\* [st: registry after the item, update: the on_price_update call or NoUpdate,
\*  resolved: the on_market_resolved call or NoResolved, raised]
ParseMarketData(st, data) ==
    IF data.event_type = "market_resolved"
    THEN LET slug == ResolvedSlug(st, data.winning_asset_id)
         IN IF slug # NoSlug
            THEN [st |-> RemoveMarketOp(st, slug), update |-> NoUpdate,
                  resolved |-> [slug |-> slug,
                                winner |-> data.winning_asset_id],
                  raised |-> FALSE]
            ELSE [st |-> st, update |-> NoUpdate, resolved |-> NoResolved,
                  raised |-> FALSE]
    ELSE IF data.asset_id = NoToken
            \/ data.asset_id \notin DOMAIN st.token_to_slug
    THEN [st |-> st, update |-> NoUpdate, resolved |-> NoResolved,
          raised |-> FALSE]
    ELSE LET slug == st.token_to_slug[data.asset_id]
         IN IF slug \notin DOMAIN st.markets
            THEN [st |-> st, update |-> NoUpdate, resolved |-> NoResolved,
                  raised |-> TRUE]
            ELSE LET w == ParseQuote(st.markets[slug], data)
                     u == SendUpdate(w.m)
                     m2 == IF w.updated THEN u.m ELSE w.m
                 IN [st |-> [st EXCEPT !.markets[slug] = m2],
                     update |-> IF w.updated /\ u.emit
                                THEN [slug |-> slug, up |-> u.up,
                                      down |-> u.down]
                                ELSE NoUpdate,
                     resolved |-> NoResolved,
                     raised |-> w.raised]

(***************************************************************************)
(* Feed messages                                                           *)
(***************************************************************************)
Item(asset_id, keys, best_bid, best_ask, price, last_trade, bids, asks) ==
    [event_type |-> "", winning_asset_id |-> NoToken, asset_id |-> asset_id,
     keys |-> keys, best_bid |-> best_bid, best_ask |-> best_ask,
     price |-> price, last_trade_price |-> last_trade,
     bids |-> bids, asks |-> asks]

BidAsk(t, bid, ask) ==
    Item(t, {"best_bid", "best_ask"}, bid, ask, Null, Null, <<>>, <<>>)
BidOnly(t, bid) == Item(t, {"best_bid"}, bid, Null, Null, Null, <<>>, <<>>)
AskOnly(t, ask) == Item(t, {"best_ask"}, Null, ask, Null, Null, <<>>, <<>>)
PriceChange(t, p) == Item(t, {"price"}, Null, Null, p, Null, <<>>, <<>>)
LastTrade(t, p) ==
    Item(t, {"last_trade_price"}, Null, Null, Null, p, <<>>, <<>>)
Book(t, bids, asks) ==
    Item(t, {"bids", "asks"}, Null, Null, Null, Null, bids, asks)
Resolved(t) ==
    [event_type |-> "market_resolved", winning_asset_id |-> t,
     asset_id |-> NoToken, keys |-> {}, best_bid |-> Null, best_ask |-> Null,
     price |-> Null, last_trade_price |-> Null, bids |-> <<>>, asks |-> <<>>]

\* (bid, ask) pairs carried by complete best_bid_ask events
Quotes == {<<40000, 42000>>, <<58000, 60000>>}

BidAskEvents(T) == {BidAsk(t, q[1], q[2]) : t \in T, q \in Quotes}
PartialEvents(T) ==
    {BidOnly(t, 58000) : t \in T} \cup {AskOnly(t, 42000) : t \in T}
MalformedEvents(T) == {BidAsk(t, 40000, Bad) : t \in T}
PriceEvents(T) == {PriceChange(t, 55557) : t \in T}
ResolvedEvents(T) == {Resolved(t) : t \in T}

\* the messages of the normaliser's specification: every kind of item for
\* the instruments of "15m-a", one for its replacement instrument and one
\* for an instrument of "15m-b"
ClobEvents ==
    BidAskEvents({1}) \cup PartialEvents({1})
    \cup {BidAsk(2, 40000, 42000), BidOnly(2, 58000)}
    \cup MalformedEvents({1}) \cup PriceEvents({1})
    \cup ResolvedEvents({2})
    \cup {BidAsk(3, 40000, 42000), BidAsk(4, 40000, 42000),
          LastTrade(2, 55557), Book(1, <<39000, 40000>>, <<43000, 42000>>)}

(***************************************************************************)
(* State                                                                   *)
(***************************************************************************)
VARIABLES
    markets,            \* CLOBClient.markets: slug -> tokens and stored quotes
    token_to_slug,      \* CLOBClient.token_to_slug
    need_resubscribe,   \* CLOBClient.need_resubscribe
    current_market,     \* DataRecorder.current_market (15m)
    current_market_5m,
    market_history,     \* insertion-ordered slug -> token_ids
    market_history_5m,
    target_price,
    target_price_5m,
    up_prices, down_prices,
    up_prices_5m, down_prices_5m,
    db,                 \* DataRecorder.db / DBWriter._db: 0 is None, else the day
    db_date,
    queue,              \* DBWriter.queue
    applied,            \* the task the consumer handed to storage last
    today,              \* the calendar day of the clock
    pc,                 \* position of DataRecorder.start in its loop
    emitted,            \* the on_price_update call made by the last step
    touched,            \* per slug, the <<side, kind, fields>> of the feed writes since
                        \* the slug was registered
    nrecv,              \* per slug, the quote items addressed to it since the
                        \* slug was registered
    nmsgs,              \* items delivered by the quote feed so far
    kind,               \* the feed client whose start() the behaviour follows
    cpc,                \* position of that client's start()
    running,            \* the client's self.running
    wsclosed,           \* the peer has closed the current connection
    all_assets,         \* CLOBClient.start's local all_assets
    subscribed,         \* assets_ids of the last subscribe message sent on
                        \* the current connection
    last_price,         \* BinanceClient.last_price / RTDSClient.last_oracle_price
    callback,           \* argument of the on_price_update / on_oracle_update
                        \* call made by the last step
    writer,             \* DBWriter: "running", "stopping" (running is False,
                        \* thread alive) or "exited"
    failed,             \* the task whose storage call raised last
    series,             \* the events the discovery endpoints serve
    found,              \* the result of the last get_current_market call
    now,                \* the clock, in milliseconds
    bnc_history,        \* DataRecorder.bnc_history: <<timestamp, price>> ticks
    oracle_price,       \* DataRecorder.oracle_price
    oracle_ts,          \* DataRecorder.last_update_ts['oracle']
    current_lag_ms,     \* DataRecorder.current_lag_ms
    inflight,           \* DBWriter.run's local `task`: taken from the queue,
                        \* its storage call not yet returned
    handle_ops,         \* the <<operation, caller>> pairs of the calls the
                        \* last step made on a storage handle
    connection_healthy, \* the client's self.connection_healthy
    lastOp              \* the operation of the last step

clobVars == <<markets, token_to_slug, need_resubscribe>>
recVars == <<current_market, current_market_5m, market_history,
             market_history_5m, target_price, target_price_5m,
             up_prices, down_prices, up_prices_5m, down_prices_5m>>
dbVars == <<db, db_date, queue, applied>>
feedVars == <<kind, cpc, running, wsclosed, all_assets, subscribed,
              last_price, callback, connection_healthy>>
writerVars == <<writer, failed>>
discVars == <<series, found>>
lagVars == <<bnc_history, oracle_price, oracle_ts, current_lag_ms>>
handleVars == <<inflight, handle_ops>>
vars == <<clobVars, recVars, dbVars, today, pc, emitted, touched, nrecv,
          nmsgs, feedVars, writerVars, discVars, lagVars, now, handleVars,
          lastOp>>

NoMarket == [slug |-> NoSlug, token_ids |-> <<>>]
NoTarget == 0
NoDb == 0
NoData == Resolved(NoToken)
NoTask == [func |-> "", event_type |-> "", market_slug |-> NoSlug,
           up |-> NoPrices, down |-> NoPrices, target_price |-> NoTarget,
           winner |-> ""]
ZeroPrices == [bid |-> 0, ask |-> 0, mid |-> 0]

Op(name, slug, token_ids, data) ==
    [op |-> name, slug |-> slug, token_ids |-> token_ids, data |-> data]

ClobState ==
    [markets |-> markets, token_to_slug |-> token_to_slug,
     need_resubscribe |-> need_resubscribe]

SetClob(st) ==
    /\ markets' = st.markets
    /\ token_to_slug' = st.token_to_slug
    /\ need_resubscribe' = st.need_resubscribe

StartTime == 1000        \* the clock when the program starts (time.time() > 0)

\* the state after construction, following the start() of feed client k;
\* what the discovery endpoints serve is left open
InitBase(k) ==
    /\ kind = k
    /\ cpc = "init"
    /\ running = FALSE
    /\ wsclosed = FALSE
    /\ all_assets = {}
    /\ subscribed = {}
    /\ last_price = NoneV
    /\ callback = NoneV
    /\ writer = "running"
    /\ failed = NoTask
    /\ found = NoMarket
    /\ now = StartTime
    /\ bnc_history = <<>>
    /\ oracle_price = NoneV
    /\ oracle_ts = 0
    /\ current_lag_ms = 0
    /\ inflight = NoTask
    /\ handle_ops = {}
    /\ connection_healthy = FALSE
    /\ markets = [s \in {} |-> NewMarket(<<>>)]
    /\ token_to_slug = [t \in {} |-> NoSlug]
    /\ need_resubscribe = FALSE
    /\ current_market = NoMarket
    /\ current_market_5m = NoMarket
    /\ market_history = <<>>
    /\ market_history_5m = <<>>
    /\ target_price = NoTarget
    /\ target_price_5m = NoTarget
    /\ up_prices = NoPrices
    /\ down_prices = NoPrices
    /\ up_prices_5m = NoPrices
    /\ down_prices_5m = NoPrices
    /\ db = NoDb
    /\ db_date = 0
    /\ queue = <<>>
    /\ applied = NoTask
    /\ today = 1
    /\ pc = "rotation"
    /\ emitted = NoUpdate
    /\ touched = [s \in Slugs |-> {}]
    /\ nrecv = [s \in Slugs |-> 0]
    /\ nmsgs = 0
    /\ lastOp = Op("init", NoSlug, <<>>, NoData)

\* the discovery endpoints serve nothing yet
InitWith(k) == InitBase(k) /\ series = <<>>

Init == InitWith("clob")

(***************************************************************************)
(* DBWriter and DataRecorder helpers                                       *)
(***************************************************************************)
LogTask(event_type, slug) ==
    [func |-> "log_event", event_type |-> event_type, market_slug |-> slug,
     up |-> NoPrices, down |-> NoPrices, target_price |-> NoTarget,
     winner |-> ""]

\* the quote fields of a snapshot: x.get(k, 0) if x else 0
Filled(prices) == IF prices # NoPrices THEN prices ELSE ZeroPrices

SnapshotTask(func, market, up, down, target) ==
    [func |-> func, event_type |-> "", market_slug |-> market.slug,
     up |-> Filled(up), down |-> Filled(down), target_price |-> target,
     winner |-> ""]

\* log_event: enqueue only when a storage handle exists
LogEvent(q, handle, event_type, slug) ==
    IF handle # NoDb THEN Append(q, LogTask(event_type, slug)) ELSE q

\* a variant of HistoryPut that drops the newest entry beyond cap
HistoryPut_DropNewest(h, slug, token_ids, cap) ==
    LET at == {i \in 1..Len(h) : h[i].slug = slug}
        h1 == IF at = {}
              THEN Append(h, [slug |-> slug, token_ids |-> token_ids])
              ELSE [i \in 1..Len(h) |->
                       IF i \in at THEN [slug |-> slug, token_ids |-> token_ids]
                       ELSE h[i]]
    IN IF Len(h1) > cap THEN SubSeq(h1, 1, cap) ELSE h1

\* market_history[slug] = token_ids, then drop the oldest entry beyond cap
HistoryPut(h, slug, token_ids, cap) ==
    LET at == {i \in 1..Len(h) : h[i].slug = slug}
        h1 == IF at = {}
              THEN Append(h, [slug |-> slug, token_ids |-> token_ids])
              ELSE [i \in 1..Len(h) |->
                       IF i \in at THEN [slug |-> slug, token_ids |-> token_ids]
                       ELSE h[i]]
    IN IF Len(h1) > cap THEN Tail(h1) ELSE h1

(***************************************************************************)
(* Actions: the quote feed                                                 *)
(***************************************************************************)
\* the event type of an item, by the field the parser dispatches on
Kind(data) ==
    IF "best_bid" \in data.keys \/ "best_ask" \in data.keys
    THEN "best_bid_ask"
    ELSE IF "price" \in data.keys THEN "price_change"
    ELSE IF "last_trade_price" \in data.keys THEN "last_trade_price"
    ELSE "book"

\* <<side, kind, fields>> of the write the item makes to its market, if it
\* makes one; fields is "bid", "ask" or "both"
WrittenSides(st, data) ==
    IF data.event_type = "market_resolved"
       \/ data.asset_id \notin DOMAIN st.token_to_slug
    THEN {}
    ELSE LET slug == st.token_to_slug[data.asset_id]
         IN IF slug \notin DOMAIN st.markets THEN {}
            ELSE LET m == st.markets[slug]
                     w == ParseQuote(m, data)
                     sd == SideOf(m, data.asset_id)
                     bidW == w.m[BidField(sd)] # m[BidField(sd)]
                               \/ (w.updated /\ Kind(data) # "best_bid_ask")
                               \/ (w.updated /\ Truthy(data.best_bid))
                     askW == w.m[AskField(sd)] # m[AskField(sd)]
                               \/ (w.updated /\ Kind(data) # "best_bid_ask")
                               \/ (w.updated /\ Truthy(data.best_ask))
                 IN IF sd \in {"up", "down"} /\ (bidW \/ askW)
                    THEN {<<sd, Kind(data),
                            IF bidW /\ askW THEN "both"
                            ELSE IF bidW THEN "bid" ELSE "ask">>}
                    ELSE {}

\* the entry of slug in a rotation history, or <<>>
HistoryGet(h, slug) ==
    LET at == {i \in 1..Len(h) : h[i].slug = slug}
    IN IF at = {} THEN <<>> ELSE <<h[CHOOSE i \in at : TRUE].token_ids>>

\* on_market_resolved, token_ids: the 15m history, the 5m history, the
\* current 15m market, the current 5m market, else []
ResolvedTokens(slug) ==
    IF HistoryGet(market_history, slug) # <<>>
    THEN HistoryGet(market_history, slug)[1]
    ELSE IF HistoryGet(market_history_5m, slug) # <<>>
    THEN HistoryGet(market_history_5m, slug)[1]
    ELSE IF current_market # NoMarket /\ current_market.slug = slug
    THEN current_market.token_ids
    ELSE IF current_market_5m # NoMarket /\ current_market_5m.slug = slug
    THEN current_market_5m.token_ids
    ELSE <<>>

\* a variant of Winner that reads the pair the other way round
Winner_Swapped(token_ids, winning_asset_id) ==
    IF Len(token_ids) >= 2 /\ winning_asset_id = token_ids[2] THEN "UP"
    ELSE IF Len(token_ids) >= 2 /\ winning_asset_id = token_ids[1] THEN "DOWN"
    ELSE "Unknown"

\* on_market_resolved, winner
Winner(token_ids, winning_asset_id) ==
    IF Len(token_ids) >= 2 /\ winning_asset_id = token_ids[1] THEN "UP"
    ELSE IF Len(token_ids) >= 2 /\ winning_asset_id = token_ids[2] THEN "DOWN"
    ELSE "Unknown"

\* the market_outcome task; its message names the slug and the winner
OutcomeTask(slug, winner) ==
    [LogTask("market_outcome", slug) EXCEPT !.winner = winner]

\* on_market_resolved(market_slug, winning_asset_id)
OnMarketResolved(q, handle, slug, winning_asset_id) ==
    IF handle # NoDb
    THEN Append(q, OutcomeTask(slug, Winner(ResolvedTokens(slug),
                                            winning_asset_id)))
    ELSE q

\* one decoded item of a CLOB text message, with the two callbacks of
\* DataRecorder it may invoke
FeedMessage(data) ==
    LET r == ParseMarketData(ClobState, data)
        u == r.update
        q1 == IF r.resolved # NoResolved
              THEN OnMarketResolved(queue, db, r.resolved.slug,
                                    r.resolved.winner)
              ELSE queue
    IN
    /\ nmsgs < MaxMsgs
    /\ nmsgs' = nmsgs + 1
    /\ Len(q1) <= MaxQueue
    /\ SetClob(r.st)
    /\ emitted' = u
    /\ IF u # NoUpdate /\ current_market # NoMarket
          /\ u.slug = current_market.slug
       THEN up_prices' = u.up /\ down_prices' = u.down
       ELSE UNCHANGED <<up_prices, down_prices>>
    /\ IF u # NoUpdate /\ current_market_5m # NoMarket
          /\ u.slug = current_market_5m.slug
       THEN up_prices_5m' = u.up /\ down_prices_5m' = u.down
       ELSE UNCHANGED <<up_prices_5m, down_prices_5m>>
    /\ queue' = q1
    /\ touched' =
          [s \in Slugs |->
              IF r.resolved # NoResolved /\ s = r.resolved.slug THEN {}
              ELSE IF data.event_type # "market_resolved"
                      /\ data.asset_id \in DOMAIN token_to_slug
                      /\ s = token_to_slug[data.asset_id]
              THEN touched[s] \cup WrittenSides(ClobState, data)
              ELSE touched[s]]
    /\ nrecv' =
          [s \in Slugs |->
              IF r.resolved # NoResolved /\ s = r.resolved.slug THEN 0
              ELSE IF data.event_type # "market_resolved"
                      /\ data.asset_id \in DOMAIN token_to_slug
                      /\ s = token_to_slug[data.asset_id]
                      /\ s \in DOMAIN markets
              THEN nrecv[s] + 1
              ELSE nrecv[s]]
    /\ lastOp' = Op("event", NoSlug, <<>>, data)
    /\ UNCHANGED <<current_market, current_market_5m, market_history,
                   market_history_5m, target_price, target_price_5m,
                   db, db_date, applied, today, pc>>
    /\ UNCHANGED writerVars
    /\ UNCHANGED <<discVars, lagVars, now>>
    /\ UNCHANGED inflight /\ handle_ops' = {}

\* an item handed to the parser directly, outside start()
FeedItem(data) == FeedMessage(data) /\ UNCHANGED feedVars

(***************************************************************************)
(* Actions: the registry, called directly                                  *)
(***************************************************************************)
\* token lists a caller may register for a slug
PairsOf(slug) ==
    IF slug = "15m-a" THEN {<<1, 2>>, <<3, 2>>}
    ELSE IF slug = "15m-b" THEN {<<4, 5>>}
    ELSE {<<6, 7>>}

SetMarket(token_ids, market_slug) ==
    LET st == SetMarketOp(ClobState, token_ids, market_slug)
    IN
    /\ SetClob(st)
    /\ touched' = IF st = ClobState THEN touched
                  ELSE [touched EXCEPT ![market_slug] = {}]
    /\ nrecv' = IF st = ClobState THEN nrecv
                ELSE [nrecv EXCEPT ![market_slug] = 0]
    /\ emitted' = NoUpdate
    /\ lastOp' = Op("set_market", market_slug, token_ids, NoData)
    /\ UNCHANGED <<recVars, dbVars, today, pc, nmsgs>>
    /\ UNCHANGED <<feedVars, writerVars>>
    /\ UNCHANGED <<discVars, lagVars, now>>
    /\ UNCHANGED inflight /\ handle_ops' = {}

RemoveMarket(market_slug) ==
    /\ SetClob(RemoveMarketOp(ClobState, market_slug))
    /\ touched' = [touched EXCEPT ![market_slug] = {}]
    /\ nrecv' = [nrecv EXCEPT ![market_slug] = 0]
    /\ emitted' = NoUpdate
    /\ lastOp' = Op("remove_market", market_slug, <<>>, NoData)
    /\ UNCHANGED <<recVars, dbVars, today, pc, nmsgs>>
    /\ UNCHANGED <<feedVars, writerVars>>
    /\ UNCHANGED <<discVars, lagVars, now>>
    /\ UNCHANGED inflight /\ handle_ops' = {}

\* CLOBClient.start up to the receive loop: with instruments to subscribe
\* to, connect, send the subscribe message and clear the resubscribe flag
ClobSubscribe ==
    /\ DOMAIN token_to_slug # {}
    /\ need_resubscribe
    /\ need_resubscribe' = FALSE
    /\ emitted' = NoUpdate
    /\ lastOp' = Op("subscribe", NoSlug, <<>>, NoData)
    /\ UNCHANGED <<markets, token_to_slug, recVars, dbVars, today, pc,
                   touched, nrecv,
                   nmsgs>>
    /\ UNCHANGED <<feedVars, writerVars>>
    /\ UNCHANGED <<discVars, lagVars, now>>
    /\ UNCHANGED inflight /\ handle_ops' = {}

NextClob ==
    \/ \E s \in Slugs15 : \E t \in PairsOf(s) : SetMarket(t, s)
    \/ \E s \in Slugs15 : RemoveMarket(s)
    \/ \E d \in ClobEvents : FeedItem(d)
    \/ ClobSubscribe

SpecClob == Init /\ [][NextClob]_vars

(***************************************************************************)
(* Actions: DataRecorder.start, one action per awaited step of its loop    *)
(***************************************************************************)
\* results a discovery poll can return
Discover15 == {[slug |-> "15m-a", token_ids |-> <<1, 2>>],
               [slug |-> "15m-b", token_ids |-> <<4, 5>>]}
Discover5 == {[slug |-> "5m-a", token_ids |-> <<6, 7>>]}
TargetPrices == {1}

\* instances of a class expire in this order; a poll never returns an
\* instance that expires before the current one
Expiry(slug) == IF slug = "15m-b" THEN 2 ELSE IF slug = NoSlug THEN 0 ELSE 1

History15 == 20          \* len(self.market_history) > 20
History5 == 40           \* len(self.market_history_5m) > 40

\* check_db_rotation: on a new day wait until the queue is empty, close the
\* handle, open the day's handle, hand it to the writer and log the switch
CheckDbRotation ==
    /\ pc = "rotation"
    /\ IF today # db_date
       THEN /\ db # NoDb => queue = <<>>
            /\ db' = today
            /\ db_date' = today
            /\ queue' = LogEvent(queue, today, "system", NoSlug)
       ELSE UNCHANGED <<db, db_date, queue>>
    /\ pc' = "disc15"
    /\ emitted' = NoUpdate
    /\ lastOp' = Op("check_db_rotation", NoSlug, <<>>, NoData)
    /\ UNCHANGED <<clobVars, recVars, applied, today, touched, nrecv,
                   nmsgs>>
    /\ UNCHANGED <<feedVars, writerVars>>
    /\ UNCHANGED <<discVars, lagVars, now>>
    /\ UNCHANGED inflight
    /\ handle_ops' = IF today # db_date /\ db # NoDb
                     THEN {<<"close", "check_db_rotation">>} ELSE {}

\* a variant of IsNewMarket without the test for a poll that found nothing
IsNewMarket_NoNoneCheck(market, cur) ==
    cur = NoMarket \/ market.slug # cur.slug

\* `if market and (not self.current_market or market['slug'] != ...['slug'])`
IsNewMarket(market, cur) ==
    market # NoMarket /\ (cur = NoMarket \/ market.slug # cur.slug)

\* update_market_discovery up to its second await; market = NoMarket stands
\* for a poll that is not due, fails or finds nothing
UpdateMarketDiscovery(market) ==
    /\ pc = "disc15"
    /\ market # NoMarket => Expiry(market.slug) >= Expiry(current_market.slug)
    /\ IF IsNewMarket(market, current_market)
       THEN LET st == SetMarketOp(ClobState, market.token_ids, market.slug)
            IN /\ current_market' = market
               /\ market_history' = HistoryPut(market_history, market.slug,
                                               market.token_ids, History15)
               /\ SetClob(st)
               /\ touched' = IF st = ClobState THEN touched
                             ELSE [touched EXCEPT ![market.slug] = {}]
               /\ nrecv' = IF st = ClobState THEN nrecv
                           ELSE [nrecv EXCEPT ![market.slug] = 0]
               /\ pc' = "disc15_tp"
       ELSE /\ pc' = "disc5"
            /\ UNCHANGED <<clobVars, current_market, market_history, touched,
                           nrecv>>
    /\ emitted' = NoUpdate
    /\ lastOp' = Op("update_market_discovery", market.slug, market.token_ids,
                    NoData)
    /\ UNCHANGED <<current_market_5m, market_history_5m, target_price,
                   target_price_5m, up_prices, down_prices, up_prices_5m,
                   down_prices_5m, dbVars, today, nmsgs>>
    /\ UNCHANGED <<feedVars, writerVars>>
    /\ UNCHANGED <<discVars, lagVars, now>>
    /\ UNCHANGED inflight /\ handle_ops' = {}

\* the rest of update_market_discovery once get_target_price returns
DiscoveryTarget(tp) ==
    /\ pc = "disc15_tp"
    /\ Len(queue) < MaxQueue
    /\ target_price' = tp
    /\ queue' = LogEvent(queue, db, "market_switch", current_market.slug)
    /\ pc' = "disc5"
    /\ emitted' = NoUpdate
    /\ lastOp' = Op("get_target_price", current_market.slug, <<>>, NoData)
    /\ UNCHANGED <<clobVars, current_market, current_market_5m, market_history,
                   market_history_5m, target_price_5m, up_prices, down_prices,
                   up_prices_5m, down_prices_5m, db, db_date, applied, today,
                   touched, nrecv,
                   nmsgs>>
    /\ UNCHANGED <<feedVars, writerVars>>
    /\ UNCHANGED <<discVars, lagVars, now>>
    /\ UNCHANGED inflight /\ handle_ops' = {}

UpdateMarketDiscovery5m(market) ==
    /\ pc = "disc5"
    /\ IF IsNewMarket(market, current_market_5m)
       THEN LET st == SetMarketOp(ClobState, market.token_ids, market.slug)
            IN /\ current_market_5m' = market
               /\ market_history_5m' = HistoryPut(market_history_5m,
                                          market.slug, market.token_ids,
                                          History5)
               /\ SetClob(st)
               /\ touched' = IF st = ClobState THEN touched
                             ELSE [touched EXCEPT ![market.slug] = {}]
               /\ nrecv' = IF st = ClobState THEN nrecv
                           ELSE [nrecv EXCEPT ![market.slug] = 0]
               /\ pc' = "disc5_tp"
       ELSE /\ pc' = "snapshot"
            /\ UNCHANGED <<clobVars, current_market_5m, market_history_5m,
                           touched, nrecv>>
    /\ emitted' = NoUpdate
    /\ lastOp' = Op("update_market_discovery_5m", market.slug,
                    market.token_ids, NoData)
    /\ UNCHANGED <<current_market, market_history, target_price,
                   target_price_5m, up_prices, down_prices, up_prices_5m,
                   down_prices_5m, dbVars, today, nmsgs>>
    /\ UNCHANGED <<feedVars, writerVars>>
    /\ UNCHANGED <<discVars, lagVars, now>>
    /\ UNCHANGED inflight /\ handle_ops' = {}

DiscoveryTarget5m(tp) ==
    /\ pc = "disc5_tp"
    /\ Len(queue) < MaxQueue
    /\ target_price_5m' = tp
    /\ queue' = LogEvent(queue, db, "market_switch", current_market_5m.slug)
    /\ pc' = "snapshot"
    /\ emitted' = NoUpdate
    /\ lastOp' = Op("get_target_price_5m", current_market_5m.slug, <<>>,
                    NoData)
    /\ UNCHANGED <<clobVars, current_market, current_market_5m, market_history,
                   market_history_5m, target_price, up_prices, down_prices,
                   up_prices_5m, down_prices_5m, db, db_date, applied, today,
                   touched, nrecv,
                   nmsgs>>
    /\ UNCHANGED <<feedVars, writerVars>>
    /\ UNCHANGED <<discVars, lagVars, now>>
    /\ UNCHANGED inflight /\ handle_ops' = {}

\* record_snapshot: one task per duration class that has a current market
RecordSnapshot ==
    LET q15 == IF current_market # NoMarket
               THEN <<SnapshotTask("insert_market_snapshot", current_market,
                                   up_prices, down_prices, target_price)>>
               ELSE <<>>
        q5 == IF current_market_5m # NoMarket
              THEN <<SnapshotTask("insert_market_snapshot_5m",
                                  current_market_5m, up_prices_5m,
                                  down_prices_5m, target_price_5m)>>
              ELSE <<>>
        q1 == IF db = NoDb THEN queue ELSE queue \o q15 \o q5
    IN
    /\ pc = "snapshot"
    /\ Len(q1) <= MaxQueue
    /\ queue' = q1
    /\ pc' = "rotation"
    /\ emitted' = NoUpdate
    /\ lastOp' = Op("record_snapshot", NoSlug, <<>>, NoData)
    /\ UNCHANGED <<clobVars, recVars, db, db_date, applied, today, touched, nrecv,
                   nmsgs>>
    /\ UNCHANGED <<feedVars, writerVars>>
    /\ UNCHANGED <<discVars, lagVars, now>>
    /\ UNCHANGED inflight /\ handle_ops' = {}

\* a variant of QueueGet that hands out the newest task first
QueueGet_Lifo(q) == [task |-> q[Len(q)], rest |-> SubSeq(q, 1, Len(q) - 1)]

\* queue.Queue.get on a non-empty queue: the oldest task leaves the queue
QueueGet(q) == [task |-> Head(q), rest |-> Tail(q)]

\* DBWriter.run: take the oldest task and, if a handle is set, apply it
DBWriterRun ==
    /\ writer # "exited"
    /\ pc # "exited"
    /\ queue # <<>>
    /\ queue' = QueueGet(queue).rest
    /\ applied' = IF db # NoDb THEN QueueGet(queue).task ELSE applied
    /\ emitted' = NoUpdate
    /\ lastOp' = Op("db_writer", NoSlug, <<>>, NoData)
    /\ UNCHANGED <<clobVars, recVars, db, db_date, today, pc, touched, nrecv,
                   nmsgs>>
    /\ UNCHANGED <<feedVars, writerVars>>
    /\ UNCHANGED <<discVars, lagVars, now>>
    /\ UNCHANGED inflight
    /\ handle_ops' = IF db # NoDb
                     THEN {<<QueueGet(queue).task.func, "DBWriter.run">>}
                     ELSE {}

\* the messages of the recorder's specification
RecEvents ==
    {BidAsk(2, 40000, 42000), PriceChange(1, 55557), PriceChange(4, 55557),
     PriceChange(6, 55557), Resolved(2)}

Next ==
    \/ CheckDbRotation
    \/ \E m \in Discover15 \cup {NoMarket} : UpdateMarketDiscovery(m)
    \/ \E tp \in TargetPrices : DiscoveryTarget(tp)
    \/ \E m \in Discover5 \cup {NoMarket} : UpdateMarketDiscovery5m(m)
    \/ \E tp \in TargetPrices : DiscoveryTarget5m(tp)
    \/ RecordSnapshot
    \/ DBWriterRun
    \/ \E d \in RecEvents : FeedItem(d)

Spec == Init /\ [][Next]_vars

\* the recorder's loop with market-resolved events only; the second 15m
\* instance is served with a single instrument id
DiscoverResolve ==
    {[slug |-> "15m-a", token_ids |-> <<1, 2>>],
     [slug |-> "15m-b", token_ids |-> <<4>>], NoMarket}
ResolveEvents == {Resolved(1), Resolved(2), Resolved(4), Resolved(6)}

NextResolve ==
    \/ CheckDbRotation
    \/ \E m \in DiscoverResolve : UpdateMarketDiscovery(m)
    \/ \E tp \in TargetPrices : DiscoveryTarget(tp)
    \/ \E m \in Discover5 \cup {NoMarket} : UpdateMarketDiscovery5m(m)
    \/ \E tp \in TargetPrices : DiscoveryTarget5m(tp)
    \/ RecordSnapshot
    \/ DBWriterRun
    \/ \E d \in ResolveEvents : FeedItem(d)

SpecResolve == Init /\ [][NextResolve]_vars

(***************************************************************************)
(* Actions: storage errors, day change and shutdown.  SpecDb follows the   *)
(* sampler loop of DataRecorder.start and the DBWriter thread from start   *)
(* to process exit.                                                        *)
(***************************************************************************)
MaxDay == 2              \* calendar days the clock passes through

\* a variant of AfterError in which a storage error ends the thread
AfterError_Dies(w) == "exited"

\* `except Exception` sits inside the while loop of run: the thread goes on
AfterError(w) == w

\* DBWriter.run when the storage call raises: the task has left the queue,
\* task_done is skipped, the error is written to stderr
DBWriterError ==
    /\ writer # "exited"
    /\ pc # "exited"
    /\ queue # <<>>
    /\ db # NoDb
    /\ queue' = QueueGet(queue).rest
    /\ failed' = QueueGet(queue).task
    /\ writer' = AfterError(writer)
    /\ emitted' = NoUpdate
    /\ lastOp' = Op("db_writer_error", NoSlug, <<>>, NoData)
    /\ UNCHANGED <<clobVars, recVars, db, db_date, applied, today, pc, touched,
                   nrecv, nmsgs, feedVars>>
    /\ UNCHANGED <<discVars, lagVars, now>>
    /\ UNCHANGED inflight
    /\ handle_ops' = {<<QueueGet(queue).task.func, "DBWriter.run">>}

\* the clock passes midnight (UTC)
Midnight ==
    /\ today < MaxDay
    /\ pc # "exited"
    /\ today' = today + 1
    /\ emitted' = NoUpdate
    /\ lastOp' = Op("midnight", NoSlug, <<>>, NoData)
    /\ UNCHANGED <<clobVars, recVars, dbVars, pc, touched, nrecv, nmsgs,
                   feedVars, writerVars>>
    /\ UNCHANGED <<discVars, lagVars, now>>
    /\ UNCHANGED inflight /\ handle_ops' = {}

\* check_db_rotation on a new day with a handle open and tasks waiting:
\* one turn of `while not self.db_writer.queue.empty(): await sleep(0.1)`
RotationWait ==
    /\ pc = "rotation"
    /\ today # db_date
    /\ db # NoDb
    /\ queue # <<>>
    /\ emitted' = NoUpdate
    /\ lastOp' = Op("rotation_wait", NoSlug, <<>>, NoData)
    /\ UNCHANGED <<clobVars, recVars, dbVars, today, pc, touched, nrecv,
                   nmsgs, feedVars, writerVars>>
    /\ UNCHANGED <<discVars, lagVars, now>>
    /\ UNCHANGED inflight /\ handle_ops' = {}

\* the loop positions of DataRecorder.start
LoopPcs == {"rotation", "disc15", "disc15_tp", "disc5", "disc5_tp", "snapshot"}

\* the sampler is inside the try/except of check_db_rotation
InRotationWait == pc = "rotation" /\ today # db_date /\ db # NoDb /\ queue # <<>>

\* KeyboardInterrupt / CancelledError raised at an await of the loop; the
\* finally block sets running = False and calls db_writer.stop(), which
\* sets the writer's running = False and begins join(timeout=5)
Interrupt ==
    /\ pc \in LoopPcs
    /\ ~InRotationWait
    /\ pc' = "join"
    /\ writer' = IF writer = "running" THEN "stopping" ELSE writer
    /\ emitted' = NoUpdate
    /\ lastOp' = Op("interrupt", NoSlug, <<>>, NoData)
    /\ UNCHANGED <<clobVars, recVars, dbVars, today, touched, nrecv, nmsgs,
                   feedVars, failed>>
    /\ UNCHANGED <<discVars, lagVars, now>>
    /\ UNCHANGED inflight /\ handle_ops' = {}

\* the cancellation arrives inside the drain wait: the bare `except: pass`
\* of check_db_rotation swallows it, the old handle is not closed and the
\* rotation goes on with the tasks still waiting
RotationCancelled ==
    /\ InRotationWait
    /\ Len(queue) < MaxQueue
    /\ db' = today
    /\ db_date' = today
    /\ queue' = LogEvent(queue, today, "system", NoSlug)
    /\ pc' = "disc15"
    /\ emitted' = NoUpdate
    /\ lastOp' = Op("rotation_cancelled", NoSlug, <<>>, NoData)
    /\ UNCHANGED <<clobVars, recVars, applied, today, touched, nrecv, nmsgs,
                   feedVars, writerVars>>
    /\ UNCHANGED <<discVars, lagVars, now>>
    /\ UNCHANGED inflight /\ handle_ops' = {}

\* DBWriter.run leaves `while self.running or not self.queue.empty()`
DBWriterExit ==
    /\ writer = "stopping"
    /\ pc # "exited"
    /\ queue = <<>>
    /\ inflight = NoTask
    /\ writer' = "exited"
    /\ emitted' = NoUpdate
    /\ lastOp' = Op("db_writer_exit", NoSlug, <<>>, NoData)
    /\ UNCHANGED <<clobVars, recVars, dbVars, today, pc, touched, nrecv,
                   nmsgs, feedVars, failed>>
    /\ UNCHANGED <<discVars, lagVars, now>>
    /\ UNCHANGED inflight /\ handle_ops' = {}

\* join(timeout=5) returns because the thread has ended
JoinReturns ==
    /\ pc = "join"
    /\ writer = "exited"
    /\ pc' = "close"
    /\ emitted' = NoUpdate
    /\ lastOp' = Op("join", NoSlug, <<>>, NoData)
    /\ UNCHANGED <<clobVars, recVars, dbVars, today, touched, nrecv, nmsgs,
                   feedVars, writerVars>>
    /\ UNCHANGED <<discVars, lagVars, now>>
    /\ UNCHANGED inflight /\ handle_ops' = {}

\* join(timeout=5) returns after 5 s with the thread still at work
JoinTimeout ==
    /\ pc = "join"
    /\ writer # "exited"
    /\ (queue # <<>> \/ inflight # NoTask)
    /\ pc' = "close"
    /\ emitted' = NoUpdate
    /\ lastOp' = Op("join_timeout", NoSlug, <<>>, NoData)
    /\ UNCHANGED <<clobVars, recVars, dbVars, today, touched, nrecv, nmsgs,
                   feedVars, writerVars>>
    /\ UNCHANGED <<discVars, lagVars, now>>
    /\ UNCHANGED inflight /\ handle_ops' = {}

\* `if self.db: self.db.close()`, then start() returns and the process
\* exits, which ends the daemon thread
CloseAndExit ==
    /\ pc = "close"
    /\ pc' = "exited"
    /\ emitted' = NoUpdate
    /\ lastOp' = Op("close", NoSlug, <<>>, NoData)
    /\ UNCHANGED <<clobVars, recVars, dbVars, today, touched, nrecv, nmsgs,
                   feedVars, writerVars>>
    /\ UNCHANGED <<discVars, lagVars, now>>
    /\ UNCHANGED inflight
    /\ handle_ops' = IF db # NoDb THEN {<<"close", "start">>} ELSE {}

\* the steps of the DBWriter thread
DBWriterStep == DBWriterRun \/ DBWriterError \/ DBWriterExit

\* results a discovery poll returns in SpecDb
DiscoverDb == {[slug |-> "15m-a", token_ids |-> <<1, 2>>], NoMarket}

NextDb ==
    \/ CheckDbRotation
    \/ RotationWait
    \/ RotationCancelled
    \/ \E m \in DiscoverDb : UpdateMarketDiscovery(m)
    \/ \E tp \in TargetPrices : DiscoveryTarget(tp)
    \/ UpdateMarketDiscovery5m(NoMarket)
    \/ RecordSnapshot
    \/ DBWriterRun
    \/ DBWriterError
    \/ DBWriterExit
    \/ Midnight
    \/ Interrupt
    \/ JoinReturns
    \/ JoinTimeout
    \/ CloseAndExit

SpecDb == Init /\ [][NextDb]_vars

(***************************************************************************)
(* DBWriter.run in two steps, as the event loop's thread sees it: the task *)
(* leaves the queue, then the storage call is made.  SpecHandle is SpecDb   *)
(* with the thread at this grain, in the runs in which the thread ends     *)
(* within the 5 s of join and no cancellation arrives inside the drain     *)
(* wait of check_db_rotation.                                              *)
(***************************************************************************)
\* `task = self.queue.get(timeout=1)` returns the oldest task
DBWriterGet ==
    /\ writer # "exited"
    /\ pc # "exited"
    /\ inflight = NoTask
    /\ queue # <<>>
    /\ queue' = QueueGet(queue).rest
    /\ inflight' = QueueGet(queue).task
    /\ handle_ops' = {}
    /\ emitted' = NoUpdate
    /\ lastOp' = Op("db_writer_get", NoSlug, <<>>, NoData)
    /\ UNCHANGED <<clobVars, recVars, db, db_date, applied, today, pc, touched,
                   nrecv, nmsgs, feedVars, writerVars>>
    /\ UNCHANGED <<discVars, lagVars, now>>

\* `if self._db: func(*args)` returns (ok) or raises, on the handle that is
\* set when the call is made
DBWriterApply(ok) ==
    /\ writer # "exited"
    /\ pc # "exited"
    /\ inflight # NoTask
    /\ db = NoDb => ok
    /\ inflight' = NoTask
    /\ applied' = IF db # NoDb /\ ok THEN inflight ELSE applied
    /\ failed' = IF ok THEN failed ELSE inflight
    /\ writer' = IF ok THEN writer ELSE AfterError(writer)
    /\ handle_ops' = IF db # NoDb THEN {<<inflight.func, "DBWriter.run">>}
                     ELSE {}
    /\ emitted' = NoUpdate
    /\ lastOp' = Op(IF ok THEN "db_writer" ELSE "db_writer_error", NoSlug,
                    <<>>, NoData)
    /\ UNCHANGED <<clobVars, recVars, db, db_date, queue, today, pc, touched,
                   nrecv, nmsgs, feedVars>>
    /\ UNCHANGED <<discVars, lagVars, now>>

NextHandle ==
    \/ CheckDbRotation
    \/ RotationWait
    \/ \E m \in DiscoverDb : UpdateMarketDiscovery(m)
    \/ \E tp \in TargetPrices : DiscoveryTarget(tp)
    \/ UpdateMarketDiscovery5m(NoMarket)
    \/ RecordSnapshot
    \/ DBWriterGet
    \/ \E ok \in BOOLEAN : DBWriterApply(ok)
    \/ DBWriterExit
    \/ Midnight
    \/ Interrupt
    \/ JoinReturns
    \/ CloseAndExit

SpecHandle == Init /\ [][NextHandle]_vars

(***************************************************************************)
(* Actions: start() and stop() of the three feed clients, one action per   *)
(* awaited step.  A behaviour follows one client (kind); the clients share *)
(* no state.                                                               *)
(***************************************************************************)
Clients == {"binance", "clob", "rtds"}

\* what an awaited ws.receive() can produce: a TEXT message, the read
\* deadline, a CLOSED message, an ERROR message, a message of another type,
\* an exception other than the deadline
Outcomes == {"text", "timeout", "closed", "error", "other", "raise"}

\* the price field of a TEXT message: missing, non-numeric, a price
Payloads == {Null, Bad, 5}

\* the price a TEXT message makes the handler pass on, NoneV if none
PriceOf(v) == IF ~Truthy(v) \/ FloatRaises(v) THEN NoneV ELSE v

\* the condition of the receive loop, with CLOB's resubscribe check
LoopCheck(k, r, flag) ==
    IF r /\ ~(k = "clob" /\ flag) THEN "recv" ELSE "top"

OnError_Return(r) == "returned"

\* the except clause of the connection loop: sleep 5 s while running
OnError(r) == IF r THEN "sleep" ELSE "top"

ReceiveTo_NoRunningCheck(k, r, flag, o) ==
    IF o = "timeout" THEN (IF k = "clob" THEN "recv" ELSE "top")
    ELSE IF o = "raise" THEN (IF k = "clob" THEN "top" ELSE OnError(r))
    ELSE IF o = "error" THEN "top"
    ELSE IF o = "closed" THEN (IF k = "rtds" THEN "recv" ELSE "top")
    ELSE "recv"

\* where start() is after ws.receive() produced outcome o
ReceiveTo(k, r, flag, o) ==
    IF o = "timeout"
    THEN (IF k = "clob" THEN LoopCheck(k, r, flag) ELSE "top")
    ELSE IF o = "raise" THEN (IF k = "clob" THEN "top" ELSE OnError(r))
    ELSE IF ~r THEN "top"
    ELSE IF o = "error" THEN "top"
    ELSE IF o = "closed"
    THEN (IF k = "rtds" THEN LoopCheck(k, r, flag) ELSE "top")
    ELSE LoopCheck(k, r, flag)

\* a step of the client that touches nothing but the client
ClientFrame ==
    /\ emitted' = NoUpdate
    /\ UNCHANGED <<markets, token_to_slug, recVars, dbVars, today, pc,
                   touched, nrecv, nmsgs, writerVars, kind>>
    /\ UNCHANGED <<discVars, lagVars, now>>
    /\ UNCHANGED inflight /\ handle_ops' = {}

\* start(): self.running = True
StartClient ==
    /\ cpc = "init"
    /\ running' = TRUE
    /\ cpc' = "top"
    /\ callback' = NoneV
    /\ lastOp' = Op("start", kind, <<>>, NoData)
    /\ ClientFrame
    /\ UNCHANGED <<need_resubscribe, wsclosed, all_assets, subscribed,
                   last_price, connection_healthy>>

\* stop(): self.running = False
StopClient ==
    /\ cpc \notin {"init", "returned"}
    /\ running
    /\ running' = FALSE
    /\ callback' = NoneV
    /\ lastOp' = Op("stop", kind, <<>>, NoData)
    /\ ClientFrame
    /\ UNCHANGED <<need_resubscribe, cpc, wsclosed, all_assets, subscribed,
                   last_price, connection_healthy>>

\* the head of the connection loop up to its first await
ClientTop ==
    /\ cpc = "top"
    /\ IF ~running
       THEN cpc' = "returned" /\ UNCHANGED all_assets
       ELSE IF kind = "clob"
       THEN /\ all_assets' = DOMAIN token_to_slug
            /\ cpc' = IF DOMAIN token_to_slug = {} THEN "poll" ELSE "connect"
       ELSE cpc' = "connect" /\ UNCHANGED all_assets
    /\ callback' = NoneV
    /\ lastOp' = Op("top", kind, <<>>, NoData)
    /\ ClientFrame
    /\ UNCHANGED <<need_resubscribe, running, wsclosed, subscribed,
                   last_price, connection_healthy>>

\* CLOB with no instruments: asyncio.sleep(1) is over
ClientPoll ==
    /\ cpc = "poll"
    /\ cpc' = "top"
    /\ callback' = NoneV
    /\ lastOp' = Op("poll", kind, <<>>, NoData)
    /\ ClientFrame
    /\ UNCHANGED <<need_resubscribe, running, wsclosed, all_assets,
                   subscribed, last_price,
                   connection_healthy>>

\* session.ws_connect returns (ok) or raises
ClientConnect(ok) ==
    /\ cpc = "connect"
    /\ IF ok
       THEN /\ cpc' = IF kind = "binance"
                      THEN LoopCheck(kind, running, need_resubscribe)
                      ELSE "send"
            /\ wsclosed' = FALSE
            /\ subscribed' = {}
            /\ connection_healthy' = TRUE
       ELSE /\ cpc' = OnError(running)
            /\ UNCHANGED <<wsclosed, subscribed, connection_healthy>>
    /\ callback' = NoneV
    /\ lastOp' = Op(IF ok THEN "connect_ok" ELSE "connect_fail", kind, <<>>,
                    NoData)
    /\ ClientFrame
    /\ UNCHANGED <<need_resubscribe, running, all_assets, last_price>>

\* ws.send_json of a subscribe message returns (ok) or raises; CLOB clears
\* need_resubscribe after its send, RTDS sends two messages
ClientSend(ok) ==
    /\ cpc \in {"send", "send2"}
    /\ IF ~ok
       THEN /\ cpc' = OnError(running)
            /\ UNCHANGED <<need_resubscribe, subscribed>>
       ELSE IF kind = "clob"
       THEN /\ subscribed' = all_assets
            /\ need_resubscribe' = FALSE
            /\ cpc' = LoopCheck(kind, running, FALSE)
       ELSE /\ cpc' = IF cpc = "send" THEN "send2"
                      ELSE LoopCheck(kind, running, need_resubscribe)
            /\ UNCHANGED <<need_resubscribe, subscribed>>
    /\ callback' = NoneV
    /\ lastOp' = Op(IF ok THEN "send_ok" ELSE "send_fail", kind, <<>>, NoData)
    /\ ClientFrame
    /\ UNCHANGED <<running, wsclosed, all_assets, last_price,
                   connection_healthy>>

\* the retry sleep of 5 s is over
ClientSleep ==
    /\ cpc = "sleep"
    /\ cpc' = "top"
    /\ callback' = NoneV
    /\ lastOp' = Op("sleep", kind, <<>>, NoData)
    /\ ClientFrame
    /\ UNCHANGED <<need_resubscribe, running, wsclosed, all_assets,
                   subscribed, last_price,
                   connection_healthy>>

\* self.connection_healthy after ws.receive() produced outcome o: a TEXT
\* message taken by a running client sets it, nothing clears it
HealthAfter(healthy, o, r) == IF o = "text" /\ r THEN TRUE ELSE healthy

\* ws.receive() produces outcome o (a TEXT message carries price field v)
\* and the loop body runs up to the next await; CLOB's TEXT messages are
\* ClientReceiveItem
ClientReceive(o, v) ==
    LET p == IF o = "text" /\ running THEN PriceOf(v) ELSE NoneV
    IN
    /\ cpc = "recv"
    /\ wsclosed => o = "closed"
    /\ ~(kind = "clob" /\ o = "text" /\ running)
    /\ cpc' = ReceiveTo(kind, running, need_resubscribe, o)
    /\ wsclosed' = (wsclosed \/ o = "closed")
    /\ callback' = p
    /\ last_price' = IF p # NoneV THEN p ELSE last_price
    /\ connection_healthy' = HealthAfter(connection_healthy, o, running)
    /\ lastOp' = Op(o, kind, <<>>, NoData)
    /\ ClientFrame
    /\ UNCHANGED <<need_resubscribe, running, all_assets, subscribed>>

\* CLOB: ws.receive() produces a TEXT message holding one item; an
\* exception of the parser is swallowed and the loop goes on
ClientReceiveItem(data) ==
    /\ kind = "clob"
    /\ cpc = "recv"
    /\ running
    /\ ~wsclosed
    /\ FeedMessage(data)
    /\ cpc' = LoopCheck(kind, running, need_resubscribe')
    /\ callback' = NoneV
    /\ UNCHANGED <<kind, running, wsclosed, all_assets, subscribed,
                   last_price, connection_healthy>>

\* a step of start()
ClientStep ==
    \/ ClientTop
    \/ ClientPoll
    \/ \E ok \in BOOLEAN : ClientConnect(ok)
    \/ \E ok \in BOOLEAN : ClientSend(ok)
    \/ ClientSleep
    \/ \E o \in Outcomes : \E v \in Payloads : ClientReceive(o, v)

\* the items of the feed clients' specification
FeedEvents == {BidAsk(1, 40000, 42000), BidAsk(1, 40000, Bad), Resolved(2)}

\* the registry calls the rotation scheduler makes while start() runs
FeedPairs == {<<1, 2>>, <<3, 2>>}

NextFeeds ==
    \/ StartClient
    \/ StopClient
    \/ ClientStep
    \/ \E d \in FeedEvents : ClientReceiveItem(d)
    \/ \E t \in FeedPairs : kind = "clob" /\ SetMarket(t, "15m-a")
    \/ kind = "clob" /\ RemoveMarket("15m-a")

InitFeeds == \E k \in Clients : InitWith(k)

SpecFeeds == InitFeeds /\ [][NextFeeds]_vars

\* every await of start() returns: sleeps end, connection attempts and
\* sends end, receive is bounded by the read deadline
SpecFeedsFair == SpecFeeds /\ WF_vars(ClientStep)

(***************************************************************************)
(* DataRecorder.start together with one of the feed clients it creates.    *)
(* The client task runs only while start() is at an await of its loop: the *)
(* finally block of start() has no await and join(timeout=5) blocks the    *)
(* event loop's thread.                                                    *)
(***************************************************************************)
\* asyncio.create_task(client.start()): the task begins at an await of start
RecorderStartsClient == pc \in LoopPcs /\ StartClient

\* a step of the client task, taken while start() is suspended in its loop
RecorderClientStep == pc \in LoopPcs /\ ClientStep

\* asyncio.run cancels the tasks still pending once start() has returned:
\* CancelledError ends the client's start() at its await
CancelClient ==
    /\ pc = "exited"
    /\ cpc \notin {"init", "returned", "cancelled"}
    /\ cpc' = "cancelled"
    /\ callback' = NoneV
    /\ lastOp' = Op("cancel", kind, <<>>, NoData)
    /\ ClientFrame
    /\ UNCHANGED <<need_resubscribe, running, wsclosed, all_assets,
                   subscribed, last_price,
                   connection_healthy>>

NextShutdown ==
    \/ RecorderStartsClient
    \/ RecorderClientStep
    \/ CancelClient
    \/ NextDb

SpecShutdown == InitFeeds /\ [][NextShutdown]_vars

(***************************************************************************)
(* MarketDiscovery.get_current_market and MarketDiscovery5m                *)
(* .get_current_market.  Times are in milliseconds.  A list-valued field   *)
(* of a served market is a JSON array or the JSON text of one; the code    *)
(* decodes clobTokenIds when it is text and uses outcomes as served.       *)
(***************************************************************************)
MinBuffer == 10000       \* MIN_BUFFER_SECONDS = 10
Interval == 300          \* interval = 300, in seconds

JList(items) == [enc |-> "list", items |-> items]
JStr(items) == [enc |-> "str", items |-> items]

\* clob_tokens after `if isinstance(clob_tokens, str): json.loads`
JsonLoads(v) == v.items

\* str(label).lower()
Lower(label) ==
    CASE label = "Up" -> "up"
      [] label \in {"Down", "DOWN"} -> "down"
      [] label = "No" -> "no"
      [] label = "Yes" -> "yes"
      [] label = "Below" -> "below"
      [] OTHER -> label

Negative == {"no", "below", "down"}

\* outcomes[0]: an element of a list, the first character of a text
FirstOf(v) == IF v.enc = "str" THEN "[" ELSE v.items[1]

\* `outcomes and len(outcomes) >= 2`: the text of a JSON array holds at
\* least its two brackets
AtLeastTwo(v) == IF v.enc = "str" THEN TRUE ELSE Len(v.items) >= 2

\* the token list get_current_market returns
Canonical(outcomes, clob_tokens) ==
    IF /\ AtLeastTwo(outcomes)
       /\ Len(clob_tokens) >= 2
       /\ Lower(FirstOf(outcomes)) \in Negative
    THEN <<clob_tokens[2], clob_tokens[1]>>
    ELSE clob_tokens

\* an endDate that fromisoformat parses
IsTime(endDate) == endDate >= 0

\* the events kept by `if end_time > buffer_time`, in served order
Upcoming(events, t) ==
    LET Keep(e) == e.cls = "15m" /\ IsTime(e.endDate)
                      /\ e.endDate > t + MinBuffer
    IN SelectSeq(events, Keep)

\* a variant of Earliest that takes the first event kept, unsorted
Earliest_Unsorted(s) == s[1]

\* upcoming_markets.sort(key=end_time) (stable), then element 0
Earliest(s) ==
    LET least == CHOOSE i \in 1..Len(s) :
                    /\ \A j \in 1..Len(s) : s[i].endDate <= s[j].endDate
                    /\ \A j \in 1..(i - 1) : s[j].endDate # s[i].endDate
    IN s[least]

MarketOf(e, end_time) ==
    [slug |-> e.slug,
     token_ids |-> Canonical(e.outcomes, JsonLoads(e.clobTokenIds)),
     end_time |-> end_time]

\* MarketDiscovery.get_current_market; fetched: the request for the
\* selected event returns 200 with a market.  An endDate that does not
\* parse raises, and `except Exception` makes the result None
GetCurrentMarket(events, t, fetched) ==
    LET up == Upcoming(events, t)
    IN IF \E i \in 1..Len(events) :
             events[i].cls = "15m" /\ events[i].endDate = Bad
       THEN NoMarket
       ELSE IF up = <<>> \/ ~fetched THEN NoMarket
       ELSE MarketOf(Earliest(up), Earliest(up).endDate)

\* MarketDiscovery5m.get_current_market: the event served for the slug of
\* the current bucket, else the one of the next bucket
GetCurrentMarket5m(events, t) ==
    LET now_ts == t \div 1000
        current_bucket_start == now_ts - (now_ts % Interval)
        candidates == <<current_bucket_start, current_bucket_start + Interval>>
        Served(start_ts) == {i \in 1..Len(events) :
                                /\ events[i].cls = "5m"
                                /\ events[i].start = start_ts}
        Usable(start_ts) == /\ Served(start_ts) # {}
                            /\ LET i == CHOOSE i \in Served(start_ts) :
                                          \A j \in Served(start_ts) : i <= j
                               IN ~events[i].closed
        Pick(start_ts) ==
            LET i == CHOOSE i \in Served(start_ts) :
                        \A j \in Served(start_ts) : i <= j
            IN MarketOf(events[i], (start_ts + Interval) * 1000)
    IN IF Usable(candidates[1]) THEN Pick(candidates[1])
       ELSE IF Usable(candidates[2]) THEN Pick(candidates[2])
       ELSE NoMarket

\* what the endpoints may serve
OutcomeLists ==
    {JList(<<"Up", "Down">>), JList(<<"Down", "Up">>), JList(<<"DOWN", "Up">>),
     JList(<<"No", "Yes">>), JList(<<"Below", "Yes">>), JList(<<"Down">>),
     JStr(<<"Down", "Up">>)}
EndDates == {Null, Bad, 11000, 16000, 21000}

TokensOf(slug) ==
    IF slug = "15m-a" THEN <<1, 2>> ELSE IF slug = "15m-b" THEN <<4, 5>>
    ELSE <<6, 7>>

Event15(slug, endDate, outcomes, tokens) ==
    [cls |-> "15m", slug |-> slug, endDate |-> endDate, outcomes |-> outcomes,
     clobTokenIds |-> tokens]

Event5(start, closed, outcomes, tokens) ==
    [cls |-> "5m", slug |-> "5m-a", start |-> start, closed |-> closed,
     outcomes |-> outcomes, clobTokenIds |-> tokens]

Events15(slug) ==
    {Event15(slug, d, o, t) : d \in EndDates, o \in OutcomeLists,
                              t \in {JStr(TokensOf(slug)), JList(<<1>>)}}
Events5 ==
    {Event5(st, c, o, JStr(TokensOf("5m-a"))) :
        st \in {0, Interval}, c \in BOOLEAN, o \in OutcomeLists}

\* the series endpoint lists instances in either order
SeriesSet ==
    {<<>>}
    \cup {<<a>> : a \in Events15("15m-a")}
    \cup {<<a, b>> : a \in Events15("15m-a"),
                     b \in {Event15("15m-b", d, JList(<<"Up", "Down">>),
                                    JStr(TokensOf("15m-b"))) : d \in EndDates}}
    \cup {<<b, a>> : a \in {Event15("15m-a", d, JList(<<"Up", "Down">>),
                                    JStr(TokensOf("15m-a"))) : d \in EndDates},
                     b \in {Event15("15m-b", d, JList(<<"Up", "Down">>),
                                    JStr(TokensOf("15m-b"))) : d \in EndDates}}
    \cup {<<e>> : e \in Events5}

DiscTimes == {StartTime, 6000, 301000}

DiscFrame ==
    /\ emitted' = NoUpdate
    /\ UNCHANGED <<clobVars, recVars, dbVars, today, pc, touched, nrecv,
                   nmsgs, feedVars, writerVars, lagVars>>
    /\ UNCHANGED inflight /\ handle_ops' = {}

\* the clock advances
Tick(t) ==
    /\ t > now
    /\ now' = t
    /\ lastOp' = Op("tick", NoSlug, <<>>, NoData)
    /\ DiscFrame
    /\ UNCHANGED discVars

\* a call of MarketDiscovery.get_current_market
GetMarket(fetched) ==
    /\ found' = GetCurrentMarket(series, now, fetched)
    /\ lastOp' = Op(IF fetched THEN "get_current_market"
                    ELSE "get_current_market_error", NoSlug, <<>>, NoData)
    /\ DiscFrame
    /\ UNCHANGED <<series, now>>

\* a call of MarketDiscovery5m.get_current_market
GetMarket5m ==
    /\ found' = GetCurrentMarket5m(series, now)
    /\ lastOp' = Op("get_current_market_5m", NoSlug, <<>>, NoData)
    /\ DiscFrame
    /\ UNCHANGED <<series, now>>

NextDisc ==
    \/ \E t \in DiscTimes : Tick(t)
    \/ \E fetched \in BOOLEAN : GetMarket(fetched)
    \/ GetMarket5m

\* the served events are an input: any of SeriesSet
InitDisc == InitBase("clob") /\ series \in SeriesSet

SpecDisc == InitDisc /\ [][NextDisc]_vars

(***************************************************************************)
(* DataRecorder.on_binance_update and on_rtds_update: the lag estimate.    *)
(* Spot and oracle prices are in cents, times in milliseconds.             *)
(***************************************************************************)
MaxHist == 3             \* ticks kept in bnc_history
Lookback == 10000        \* `if now - b_ts > 10: break`
Epsilon == 10            \* `if diff < 0.1: break`

Abs(x) == IF x < 0 THEN -x ELSE x

NoMatch == [ts |-> NoneV, diff |-> NoneV]     \* best_match_ts = None, min_diff = inf

\* a variant of Better that lets an equal difference replace the match
Better_OrEqual(diff, best) == best = NoMatch \/ diff <= best.diff

\* `if diff < min_diff`
Better(diff, best) == best = NoMatch \/ diff < best.diff

\* the loop `for b_ts, b_price in reversed(self.bnc_history)` from tick i
\* back to the oldest one
RECURSIVE Scan(_, _, _, _, _)
Scan(h, i, t, p, best) ==
    IF i = 0 \/ t - h[i][1] > Lookback THEN best
    ELSE LET diff == Abs(h[i][2] - p)
             b1 == IF Better(diff, best)
                   THEN [ts |-> h[i][1], diff |-> diff] ELSE best
         IN IF diff < Epsilon THEN b1 ELSE Scan(h, i - 1, t, p, b1)

\* a variant of LagAfter that zeroes the estimate when nothing matched
LagAfter_Zeroed(best, t, lag) == IF best.ts > 0 THEN t - best.ts ELSE 0

\* `if best_match_ts: self.current_lag_ms = int((now - best_match_ts) * 1000)`
LagAfter(best, t, lag) == IF best.ts > 0 THEN t - best.ts ELSE lag

SpotPrices == {10000, 10100, 10105, 10200}
OraclePrices == {10100}
LagTimes == {StartTime, 2000, 3000, 3500, 13500}

LagFrame ==
    /\ emitted' = NoUpdate
    /\ UNCHANGED <<clobVars, recVars, dbVars, today, pc, touched, nrecv,
                   nmsgs, feedVars, writerVars, discVars, now>>
    /\ UNCHANGED inflight /\ handle_ops' = {}

\* on_binance_update(price): the tick is appended with the time of arrival
\* (binance_price is the price of the last tick of bnc_history)
OnBinanceUpdate(price) ==
    /\ Len(bnc_history) < MaxHist
    /\ bnc_history' = Append(bnc_history, <<now, price>>)
    /\ lastOp' = Op("on_binance_update", NoSlug, <<>>, NoData)
    /\ LagFrame
    /\ UNCHANGED <<oracle_price, oracle_ts, current_lag_ms>>

\* on_rtds_update(oracle_price)
OnRtdsUpdate(price) ==
    /\ oracle_price' = price
    /\ oracle_ts' = now
    /\ current_lag_ms' =
          LagAfter(Scan(bnc_history, Len(bnc_history), now, price, NoMatch),
                   now, current_lag_ms)
    /\ lastOp' = Op("on_rtds_update", NoSlug, <<>>, NoData)
    /\ LagFrame
    /\ UNCHANGED bnc_history

NextLag ==
    \/ \E t \in LagTimes : Tick(t)
    \/ \E price \in SpotPrices : OnBinanceUpdate(price)
    \/ \E price \in OraclePrices : OnRtdsUpdate(price)

SpecLag == Init /\ [][NextLag]_vars

(***************************************************************************)
(* The quote normaliser on items that carry the fields of several event    *)
(* types, and on order books whose levels come in either order.            *)
(***************************************************************************)
\* levels of an order book, best level last and best level first
BidsUp == <<39000, 41000>>
BidsDown == <<41000, 39000>>
AsksDown == <<45000, 43000>>
AsksUp == <<43000, 45000>>

\* items with the fields of more than one event type: every type; price,
\* trade and book; trade and book; an empty best_bid with a book; a price of
\* 0 with a book; a price of 0 with a trade
MixedEvents(T) ==
    {Item(t, {"best_bid", "best_ask", "price", "last_trade_price", "bids",
              "asks"}, 40000, 42000, 55557, 50000, BidsUp, AsksDown) : t \in T}
    \cup {Item(t, {"price", "last_trade_price", "bids", "asks"}, Null, Null,
                55557, 50000, BidsUp, AsksDown) : t \in T}
    \cup {Item(t, {"last_trade_price", "bids", "asks"}, Null, Null, Null,
                50000, BidsUp, AsksDown) : t \in T}
    \cup {Item(t, {"best_bid", "bids", "asks"}, Null, Null, Null, Null,
                BidsUp, AsksDown) : t \in T}
    \cup {Item(t, {"price", "bids", "asks"}, Null, Null, 0, Null, BidsUp,
                AsksDown) : t \in T}
    \cup {Item(t, {"price", "last_trade_price"}, Null, Null, 0, 50000, <<>>,
                <<>>) : t \in T}

BookEvents(T) ==
    {Book(t, b, a) : t \in T, b \in {BidsUp, BidsDown, <<40000>>},
                     a \in {AsksDown, AsksUp, <<42000>>}}

NextEvents ==
    \/ SetMarket(<<1, 2>>, "15m-a")
    \/ \E d \in MixedEvents({1, 2}) \cup BookEvents({1}) : FeedItem(d)

SpecEvents == Init /\ [][NextEvents]_vars

(***************************************************************************)
(* Rotation over many instances: the loop of DataRecorder.start with a     *)
(* discovery that serves the instances of each duration class one after    *)
(* the other, as time passes.                                              *)
(***************************************************************************)
Rotations15 == 22        \* 15m instances a behaviour passes through
Rotations5 == 42         \* 5m instances a behaviour passes through

Instance15(n) ==
    [slug |-> "15m-" \o ToString(n), token_ids |-> <<2 * n + 99, 2 * n + 100>>]
Instance5(n) ==
    [slug |-> "5m-" \o ToString(n), token_ids |-> <<2 * n + 999, 2 * n + 1000>>]

\* the number of the instance that is current, 0 before the first
Number15 ==
    IF current_market = NoMarket THEN 0
    ELSE CHOOSE n \in 1..Rotations15 : Instance15(n) = current_market
Number5 ==
    IF current_market_5m = NoMarket THEN 0
    ELSE CHOOSE n \in 1..Rotations5 : Instance5(n) = current_market_5m

\* a poll finds nothing, the current instance or the one that follows it
Served15 ==
    {NoMarket} \cup {Instance15(n) :
                        n \in {Number15, Number15 + 1} \cap 1..Rotations15}
Served5 ==
    {NoMarket} \cup {Instance5(n) :
                        n \in {Number5, Number5 + 1} \cap 1..Rotations5}

NextHistory ==
    \/ CheckDbRotation
    \/ \E m \in Served15 : UpdateMarketDiscovery(m)
    \/ \E tp \in TargetPrices : DiscoveryTarget(tp)
    \/ \E m \in Served5 : UpdateMarketDiscovery5m(m)
    \/ \E tp \in TargetPrices : DiscoveryTarget5m(tp)
    \/ RecordSnapshot
    \/ DBWriterRun

SpecHistory == Init /\ [][NextHistory]_vars

(***************************************************************************)
(* Properties                                                              *)
(***************************************************************************)
SnapshotFuncs == {"insert_market_snapshot", "insert_market_snapshot_5m"}
Quoted(p) == p # NoPrices /\ p.bid # NoneV /\ p.ask # NoneV /\ p.mid # NoneV
SidesOf(tags) == {t[1] : t \in tags}
IsNum(v) == v >= 0

\* C1: every update handed to on_price_update carries a non-null
\* {bid, ask, mid} for UP and for DOWN; the recorder's up/down quotes of a
\* duration class are both unset or both set; no queued snapshot has one
\* side quoted and the other zero-filled.
C1_BothSidesOrNone ==
    /\ emitted # NoUpdate => (Quoted(emitted.up) /\ Quoted(emitted.down))
    /\ (up_prices = NoPrices) <=> (down_prices = NoPrices)
    /\ (up_prices_5m = NoPrices) <=> (down_prices_5m = NoPrices)
    /\ \A i \in 1..Len(queue) :
          queue[i].func \in SnapshotFuncs =>
              ((queue[i].up = ZeroPrices) <=> (queue[i].down = ZeroPrices))

\* a queued 15m snapshot with both sides quoted although the feed only ever
\* wrote the UP side of its market
C1_Witness ==
    \E i \in 1..Len(queue) :
        /\ queue[i].func = "insert_market_snapshot"
        /\ queue[i].up # ZeroPrices
        /\ queue[i].down # ZeroPrices
        /\ SidesOf(touched[queue[i].market_slug]) = {"up"}

\* C2 (as claimed): while only one side of a market has received feed
\* events, after every emitted update the other side's emitted and stored
\* quote is the complement of the updated side's current quote, and the two
\* mids add up to 1 within one rounding step.
C2_ComplementAfterEveryUpdate ==
    (emitted # NoUpdate /\ emitted.slug \in DOMAIN markets) =>
        LET m == markets[emitted.slug]
            sides == SidesOf(touched[emitted.slug])
            sum == emitted.up.mid + emitted.down.mid
        IN  /\ sides = {"up"} =>
                  /\ emitted.down.bid = One - emitted.up.ask
                  /\ emitted.down.ask = One - emitted.up.bid
                  /\ m.down_bid = emitted.down.bid
                  /\ m.down_ask = emitted.down.ask
                  /\ sum >= One - Unit4 /\ sum <= One + Unit4
            /\ sides = {"down"} =>
                  /\ emitted.up.bid = One - emitted.down.ask
                  /\ emitted.up.ask = One - emitted.down.bid
                  /\ m.up_bid = emitted.up.bid
                  /\ m.up_ask = emitted.up.ask
                  /\ sum >= One - Unit4 /\ sum <= One + Unit4

\* the 15m snapshot that record_snapshot has just put on the queue
Snap15 == queue[Len(queue) - (IF current_market_5m # NoMarket THEN 1 ELSE 0)]

\* record_snapshot has just run for a 15m market whose only feed write so
\* far is a price_change of the UP instrument
C3_Case ==
    /\ lastOp.op = "record_snapshot"
    /\ db # NoDb
    /\ current_market # NoMarket
    /\ current_market.slug \in DOMAIN markets
    /\ touched[current_market.slug] = {<<"up", "price_change", "both">>}
    /\ nrecv[current_market.slug] = 1

C4_Fallback ==
    [][ \A s \in DOMAIN markets :
          (lastOp'.op = "event" /\ emitted' # NoUpdate /\ emitted'.slug = s) =>
             LET sd == SideOf(markets[s], lastOp'.data.asset_id)
                 m0 == markets[s]
                 m1 == markets'[s]
             IN  /\ (sd = "up" /\ (m0.down_bid = NoneV \/ m0.down_ask = NoneV)) =>
                       /\ emitted'.down =
                            [bid |-> Round4(One - m1.up_ask),
                             ask |-> Round4(One - m1.up_bid),
                             mid |-> RoundTo(2 * One - (m1.up_bid + m1.up_ask),
                                             2 * Unit4) \div 2]
                       /\ m1.down_bid = emitted'.down.bid
                       /\ m1.down_ask = emitted'.down.ask
                 /\ (sd = "down" /\ (m0.up_bid = NoneV \/ m0.up_ask = NoneV)) =>
                       /\ emitted'.up =
                            [bid |-> Round4(One - m1.down_ask),
                             ask |-> Round4(One - m1.down_bid),
                             mid |-> RoundTo(2 * One - (m1.down_bid + m1.down_ask),
                                             2 * Unit4) \div 2]
                       /\ m1.up_bid = emitted'.up.bid
                       /\ m1.up_ask = emitted'.up.ask
      ]_vars

\* Primary {0.40, 0.42} has just been synthesised into Complementary
\* {0.58, 0.60, 0.59}
C4_Witness ==
    /\ lastOp.op = "event"
    /\ lastOp.data = BidAsk(1, 40000, 42000)
    /\ "15m-a" \in DOMAIN markets
    /\ touched["15m-a"] = {<<"up", "best_bid_ask", "both">>}
    /\ emitted = [slug |-> "15m-a",
                  up |-> [bid |-> 40000, ask |-> 42000, mid |-> 41000],
                  down |-> [bid |-> 58000, ask |-> 60000, mid |-> 59000]]
    /\ markets["15m-a"].down_bid = 58000
    /\ markets["15m-a"].down_ask = 60000

\* the market and side a best_bid_ask item of the last step was addressed to
EventAddressed ==
    /\ lastOp.op = "event"
    /\ lastOp.data.event_type = ""
    /\ Kind(lastOp.data) = "best_bid_ask"
    /\ lastOp.data.asset_id \in DOMAIN token_to_slug
    /\ token_to_slug[lastOp.data.asset_id] \in DOMAIN markets

\* C5: after a best_bid_ask event for an instrument of a registered market,
\* the stored bid and ask of that side are the values the event carried
\* (for an event carrying one field: that field, as long as the feed has
\* written this side only).
C5_LastWriteWins ==
    EventAddressed =>
        LET d == lastOp.data
            s == token_to_slug[d.asset_id]
            m == markets[s]
            sd == SideOf(m, d.asset_id)
        IN  sd \in {"up", "down"} =>
              /\ (IsNum(d.best_bid) /\ IsNum(d.best_ask)) =>
                    (m[BidField(sd)] = d.best_bid /\ m[AskField(sd)] = d.best_ask)
              /\ (SidesOf(touched[s]) = {sd} /\ IsNum(d.best_bid)) =>
                    m[BidField(sd)] = d.best_bid
              /\ (SidesOf(touched[s]) = {sd} /\ IsNum(d.best_ask)) =>
                    m[AskField(sd)] = d.best_ask

\* a second complete event has replaced the UP quote whose complement the
\* first one had written into DOWN
C5_Witness ==
    /\ lastOp.op = "event"
    /\ lastOp.data = BidAsk(1, 58000, 60000)
    /\ "15m-a" \in DOMAIN markets
    /\ markets["15m-a"] = [tokens |-> <<1, 2>>, up_bid |-> 58000,
                           up_ask |-> 60000, down_bid |-> 58000,
                           down_ask |-> 60000]
    /\ SidesOf(touched["15m-a"]) = {"up"}

\* C6 (as claimed): a best_bid_ask event carrying only a bid (only an ask)
\* leaves the other field of that side and every other market's quotes
\* unchanged.
C6_PartialUpdateFrame ==
    [][ \A s \in DOMAIN markets :
          LET d == lastOp'.data
              sd == SideOf(markets[s], d.asset_id)
          IN  (/\ lastOp'.op = "event"
               /\ d.event_type = ""
               /\ Kind(d) = "best_bid_ask"
               /\ d.asset_id \in DOMAIN token_to_slug
               /\ token_to_slug[d.asset_id] = s
               /\ sd \in {"up", "down"}) =>
                 /\ s \in DOMAIN markets'
                 /\ (IsNum(d.best_bid) /\ d.best_ask = Null) =>
                       markets'[s][AskField(sd)] = markets[s][AskField(sd)]
                 /\ (IsNum(d.best_ask) /\ d.best_bid = Null) =>
                       markets'[s][BidField(sd)] = markets[s][BidField(sd)]
                 /\ \A s2 \in DOMAIN markets \ {s} :
                       s2 \in DOMAIN markets' /\ markets'[s2] = markets[s2]
      ]_vars

\* C7: on_price_update is invoked for a market only when a side has both a
\* bid and an ask stored, and only after the feed has written both a bid
\* and an ask of one side; bid-only (ask-only) events alone emit nothing.
C7_NoUpdateBeforeCompleteSide ==
    emitted # NoUpdate =>
        /\ emitted.slug \in DOMAIN markets
        /\ LET m == markets[emitted.slug]
           IN  \/ (m.up_bid # NoneV /\ m.up_ask # NoneV)
               \/ (m.down_bid # NoneV /\ m.down_ask # NoneV)
        /\ \E sd \in {"up", "down"} :
              /\ \E t \in touched[emitted.slug] :
                    t[1] = sd /\ t[3] \in {"bid", "both"}
              /\ \E t \in touched[emitted.slug] :
                    t[1] = sd /\ t[3] \in {"ask", "both"}

\* a bid-only and an ask-only event together completed UP and triggered the
\* first update
C7_Witness ==
    /\ emitted # NoUpdate
    /\ emitted.slug = "15m-a"
    /\ touched["15m-a"] = {<<"up", "best_bid_ask", "bid">>,
                           <<"up", "best_bid_ask", "ask">>}

\* best_bid_ask events (complete, bid-only, ask-only) for instrument t
SideEvents(t) == BidAskEvents({t}) \cup PartialEvents({t})

\* C8 (as claimed): for a registered market, an event for the Primary and
\* an event for the Complementary instrument leave the same stored quotes
\* in either order.
C8_Commutes ==
    \A s \in DOMAIN markets :
        LET m == markets[s]
        IN  (/\ Len(m.tokens) = 2
             /\ m.tokens[1] # m.tokens[2]
             /\ \A i \in 1..2 : /\ m.tokens[i] \in DOMAIN token_to_slug
                                /\ token_to_slug[m.tokens[i]] = s) =>
              \A e1 \in SideEvents(m.tokens[1]), e2 \in SideEvents(m.tokens[2]) :
                 ParseMarketData(ParseMarketData(ClobState, e1).st, e2).st.markets
                 = ParseMarketData(ParseMarketData(ClobState, e2).st, e1).st.markets

\* C9: set_market for a slug already registered with the same token list
\* changes nothing (registry, stored quotes, reverse index, resubscribe
\* flag); any other set_market raises the resubscribe flag.
C9_SetMarketIdempotent ==
    [][ lastOp'.op = "set_market" =>
          IF lastOp'.slug \in DOMAIN markets
             /\ markets[lastOp'.slug].tokens = lastOp'.token_ids
          THEN /\ markets' = markets
               /\ token_to_slug' = token_to_slug
               /\ need_resubscribe' = need_resubscribe
          ELSE /\ need_resubscribe'
               /\ markets'[lastOp'.slug] = NewMarket(lastOp'.token_ids)
      ]_vars

\* set_market repeated on a registration that already holds quotes, with the
\* resubscribe flag staying as the first call left it
C9_Witness ==
    /\ lastOp.op = "set_market"
    /\ lastOp.slug \in DOMAIN markets
    /\ markets[lastOp.slug].tokens = lastOp.token_ids
    /\ markets[lastOp.slug].up_bid # NoneV
    /\ touched[lastOp.slug] # {}
    /\ ~need_resubscribe

\* C10 (as claimed): after remove_market(slug) the slug is not registered
\* and no instrument of the reverse index maps to it.
C10_RemoveClearsIndex ==
    lastOp.op = "remove_market" =>
        /\ lastOp.slug \notin DOMAIN markets
        /\ \A t \in DOMAIN token_to_slug : token_to_slug[t] # lastOp.slug

\* stop() has been called on the client the behaviour follows
Stopped == cpc # "init" /\ ~running

\* the last step was a step of start() that ended in one of these ops
ClientDid(ops) == lastOp.slug = kind /\ lastOp.op \in ops

\* C11 (as claimed): whenever the CLOB client waits in its receive loop
\* with need_resubscribe false, the assets of the last subscribe message
\* sent on the connection are the instruments the registry indexes now.
C11_SubscribedMatchesRegistry ==
    (kind = "clob" /\ cpc = "recv" /\ ~need_resubscribe) =>
        subscribed = DOMAIN token_to_slug

C13_DeadlineEndsLoop ==
    [][ (lastOp'.slug = kind /\ lastOp'.op = "timeout") => cpc' # "recv"
      ]_vars

\* C14 (as claimed): when the transport delivers CLOSED or ERROR the client
\* leaves the receive loop of that connection.
C14_CloseEndsLoop ==
    [][ (lastOp'.slug = kind /\ lastOp'.op \in {"closed", "error"}) =>
            cpc' # "recv"
      ]_vars

\* C15 (as claimed): a CLOB item whose parsing raises leaves every stored
\* quote unchanged, emits no update and leaves the client waiting on the
\* same connection.
C15_MalformedDropped ==
    [][ (/\ lastOp'.op = "event"
         /\ cpc = "recv"
         /\ ~need_resubscribe
         /\ ParseMarketData(ClobState, lastOp'.data).raised) =>
            /\ markets' = markets
            /\ emitted' = NoUpdate
            /\ cpc' = "recv"
      ]_vars

\* C20: once stop() has been called start() returns; until then no step of
\* start() begins another receive, sleep, poll or connection attempt, and
\* no callback is invoked.
C20_StopReturns ==
    /\ Stopped ~> (cpc = "returned")
    /\ [][ (Stopped /\ lastOp'.slug = kind) =>
              cpc' \in {"top", "returned", "send", "send2"} ]_vars
    /\ [](Stopped => (callback = NoneV /\ emitted = NoUpdate))

\* a TEXT message arrived after stop(): no callback, the loop is left
C20_Witness ==
    /\ Stopped
    /\ ClientDid({"text"})
    /\ cpc = "top"
    /\ callback = NoneV

\* the last step was a step of the DBWriter thread that took a task
ConsumerTook == lastOp'.op \in {"db_writer", "db_writer_error"}

\* C16: tasks leave the queue only at its head and only in a step of the
\* one consumer, DBWriter.run; only the task taken there is handed to
\* storage; every other step leaves the waiting tasks in place and at most
\* appends behind them.  So of two tasks the one enqueued first is applied
\* or dropped before the other is applied.
C16_AppliedInEnqueueOrder ==
    [][ /\ (ConsumerTook => queue # <<>> /\ queue' = Tail(queue))
        /\ (~ConsumerTook => SubSeq(queue', 1, Len(queue)) = queue)
        /\ (applied' # applied =>
               lastOp'.op = "db_writer" /\ applied' = Head(queue)) ]_vars

\* the consumer has applied the older of two tasks; the newer still waits
C16_Witness ==
    /\ lastOp.op = "db_writer"
    /\ queue # <<>>
    /\ applied # NoTask
    /\ applied.event_type = "system"
    /\ Head(queue).event_type = "market_switch"

\* C17: a storage error drops the task after its single attempt (it is not
\* in the queue afterwards), applies nothing, and stops neither the
\* consumer nor the sampler loop: while the process lives the consumer
\* thread is alive whenever tasks wait, so later tasks are applied.
C17_ErrorDropsTask ==
    /\ [][ lastOp'.op = "db_writer_error" =>
             /\ queue' = Tail(queue)
             /\ failed' = Head(queue)
             /\ applied' = applied
             /\ writer' = writer
             /\ pc' = pc ]_vars
    /\ []((failed # NoTask /\ queue # <<>>) => writer # "exited")

\* the first task ever enqueued failed; a task enqueued after it has been
\* applied since, and the sampler loop is running
C17_Witness ==
    /\ today = 1
    /\ failed.event_type = "system"
    /\ lastOp.op = "db_writer"
    /\ applied.event_type = "market_switch"
    /\ writer = "running"
    /\ pc \in LoopPcs

\* C18: when start() has closed the handle and the process exits, no task
\* is left in the queue.
C18_DrainedBeforeExit == pc = "exited" => queue = <<>>

\* C19: the sampler loop never takes a turn of a wait for the queue to
\* empty.
C19_NeverWaitsForDrain == lastOp.op # "rotation_wait"

\* C21 (as claimed): once start() has shut down, the running flag of the
\* feed client it started is false and the client's start() is over; from
\* the moment shutdown began no task is enqueued.
C21_ShutdownStopsClients ==
    /\ []((pc = "exited" /\ cpc \notin {"init", "returned"}) =>
             (~running /\ cpc # "recv"))
    /\ []((cpc = "cancelled") => ~running)
    /\ [][pc \notin LoopPcs => Len(queue') <= Len(queue)]_vars

\* the events of the series that pass the buffer at the time of the call
Candidates ==
    {i \in 1..Len(series) : /\ series[i].cls = "15m"
                            /\ IsTime(series[i].endDate)
                            /\ series[i].endDate > now + MinBuffer}

\* the served event a returned market was built from
SourceOf(market) == CHOOSE i \in 1..Len(series) : series[i].slug = market.slug

\* C22: a market returned by MarketDiscovery.get_current_market expires
\* later than now + 10 s and no candidate that passes the buffer expires
\* before it; with no such candidate the result is None; with a candidate,
\* every endDate readable and the event request answered, a market is
\* returned.
C22_EarliestBeyondBuffer ==
    [][ lastOp'.op \in {"get_current_market", "get_current_market_error"} =>
          /\ found' # NoMarket =>
                /\ SourceOf(found') \in Candidates
                /\ found'.end_time = series[SourceOf(found')].endDate
                /\ found'.end_time > now + MinBuffer
                /\ \A j \in Candidates : series[j].endDate >= found'.end_time
          /\ Candidates = {} => found' = NoMarket
          /\ (/\ lastOp'.op = "get_current_market"
              /\ Candidates # {}
              /\ \A i \in 1..Len(series) : series[i].endDate # Bad)
                => found' # NoMarket ]_vars

\* two candidates served latest first, and the clock 10 s before the
\* earlier one: the later one is returned
C22_Witness ==
    /\ lastOp.op = "get_current_market"
    /\ Len(series) = 2
    /\ series[1].endDate = 21000
    /\ series[2].endDate = 16000
    /\ now = 6000
    /\ found # NoMarket
    /\ found.end_time = 21000

\* C23 (as claimed): a market returned by either discovery class whose
\* served market has at least two outcome labels and the instrument pair
\* <<X, Y>> carries <<Y, X>> if its first label is No, Down or Below in any
\* letter case, and <<X, Y>> otherwise.
C23_Canonicalized ==
    [][ (/\ lastOp'.op \in {"get_current_market", "get_current_market_5m"}
         /\ found' # NoMarket
         /\ Len(series[SourceOf(found')].outcomes.items) >= 2
         /\ Len(series[SourceOf(found')].clobTokenIds.items) = 2) =>
          LET e == series[SourceOf(found')]
              X == e.clobTokenIds.items[1]
              Y == e.clobTokenIds.items[2]
          IN found'.token_ids =
                IF Lower(e.outcomes.items[1]) \in Negative
                THEN <<Y, X>> ELSE <<X, Y>> ]_vars

\* the ticks the scan of an oracle tick (price p, at the clock) looks at:
\* tick i and every later tick are at most 10 s old, and no later tick is
\* within epsilon of p
Scanned(p) ==
    {i \in 1..Len(bnc_history) :
        /\ \A j \in i..Len(bnc_history) : now - bnc_history[j][1] <= Lookback
        /\ \A j \in (i + 1)..Len(bnc_history) :
               Abs(bnc_history[j][2] - p) >= Epsilon}

\* the most recent of the scanned ticks that attain the least difference
BestTick(p) ==
    CHOOSE i \in Scanned(p) :
        /\ \A j \in Scanned(p) :
               Abs(bnc_history[i][2] - p) <= Abs(bnc_history[j][2] - p)
        /\ \A j \in Scanned(p) :
               Abs(bnc_history[j][2] - p) = Abs(bnc_history[i][2] - p) => j <= i

\* C24: after an oracle tick for which at least one spot tick is scanned,
\* the lag is the clock minus the timestamp of the most recent scanned tick
\* with the least price difference.
C24_LagIsBestMatch ==
    [][ (lastOp'.op = "on_rtds_update" /\ Scanned(oracle_price') # {}) =>
          current_lag_ms' = now - bnc_history[BestTick(oracle_price')][1]
      ]_vars

\* spot ticks 100, 101, 102 one second apart, oracle tick 101 half a second
\* after the last: the lag is 1.5 s
C24_Witness ==
    /\ lastOp.op = "on_rtds_update"
    /\ bnc_history = <<<<StartTime, 10000>>, <<StartTime + 1000, 10100>>,
                       <<StartTime + 2000, 10200>>>>
    /\ now = StartTime + 2500
    /\ oracle_price = 10100
    /\ current_lag_ms = 1500

\* every spot tick is older than the lookback window (or there is none)
NoTickInWindow ==
    \A i \in 1..Len(bnc_history) : now - bnc_history[i][1] > Lookback

\* C25: an oracle tick that finds no spot tick within the 10 s window
\* leaves the lag estimate as it was and still records the oracle price and
\* its time.
C25_LagRetained ==
    [][ (lastOp'.op = "on_rtds_update" /\ NoTickInWindow) =>
          /\ current_lag_ms' = current_lag_ms
          /\ oracle_price' \in OraclePrices
          /\ oracle_ts' = now ]_vars

\* an estimate of 1.5 s survives an oracle tick that arrives when every
\* spot tick is more than 10 s old
C25_Witness ==
    /\ lastOp.op = "on_rtds_update"
    /\ bnc_history # <<>>
    /\ NoTickInWindow
    /\ oracle_ts = now
    /\ current_lag_ms = 1500

\* C26: a discovery poll that fails or finds no market leaves the current
\* market of its class, its target price, the rotation history of the
\* class, the registry and the resubscribe flag as they were, and the loop
\* goes on to its next step.
C26_FailedPollKeepsState ==
    [][ /\ (lastOp'.op = "update_market_discovery" /\ lastOp'.slug = NoSlug) =>
              /\ UNCHANGED <<current_market, target_price, market_history,
                             clobVars>>
              /\ pc' = "disc5"
        /\ (lastOp'.op = "update_market_discovery_5m"
               /\ lastOp'.slug = NoSlug) =>
              /\ UNCHANGED <<current_market_5m, target_price_5m,
                             market_history_5m, clobVars>>
              /\ pc' = "snapshot" ]_vars

\* a 15m poll failed while a market was tracked, priced and registered
C26_Witness ==
    /\ lastOp.op = "update_market_discovery"
    /\ lastOp.slug = NoSlug
    /\ current_market # NoMarket
    /\ target_price # NoTarget
    /\ current_market.slug \in DOMAIN markets
    /\ need_resubscribe

\* C27 (as claimed): the registry holds at most one 15m and at most one 5m
\* market.
C27_OnePerClass ==
    /\ Cardinality(DOMAIN markets \cap Slugs15) <= 1
    /\ Cardinality(DOMAIN markets \cap Slugs5) <= 1

\* the slugs the recorder still knows: rotation histories and current markets
KnownPairs ==
    {<<market_history[i].slug, market_history[i].token_ids>> :
        i \in 1..Len(market_history)}
    \cup {<<market_history_5m[i].slug, market_history_5m[i].token_ids>> :
             i \in 1..Len(market_history_5m)}
    \cup {<<m.slug, m.token_ids>> :
             m \in {current_market, current_market_5m} \ {NoMarket}}

\* C28 (as claimed): a market-resolved event whose winning instrument
\* belongs to an instance of the rotation history or to a current market
\* enqueues a market_outcome event for that instance, whether or not the
\* instance is still in the registry.
C28_LateEventLogged ==
    [][ (/\ lastOp'.op = "event"
         /\ lastOp'.data.event_type = "market_resolved"
         /\ db # NoDb
         /\ \E k \in KnownPairs : lastOp'.data.winning_asset_id \in Range(k[2]))
          => \E k \in KnownPairs :
                /\ lastOp'.data.winning_asset_id \in Range(k[2])
                /\ queue' = Append(queue,
                      OutcomeTask(k[1], Winner(k[2],
                                     lastOp'.data.winning_asset_id))) ]_vars

\* the winner by position in a registered pair
PositionOf(pair, id) ==
    IF Len(pair) >= 2 /\ id = pair[1] THEN "UP"
    ELSE IF Len(pair) >= 2 /\ id = pair[2] THEN "DOWN"
    ELSE "Unknown"

C30_BackoffBeforeReconnect ==
    [][ (/\ lastOp'.slug = kind
         /\ lastOp'.op \in {"connect_fail", "send_fail", "timeout", "closed",
                            "error"}
         /\ running
         /\ cpc' # "recv") => cpc' = "sleep" ]_vars

\* C31 (as claimed): every call on a storage handle that has been handed to
\* the DBWriter (an insert, an event log, close) is made by DBWriter.run.
C31_OnlyWriterUsesHandle == \A u \in handle_ops : u[2] = "DBWriter.run"

\* the rotation history h2 after instance cur was selected with history h:
\* cur is in it, it holds at most cap entries, and no entry of h is missing
\* from it except, when h was full, the entry inserted earliest
Rotated(h, h2, cur, cap) ==
    /\ \E i \in 1..Len(h2) :
           h2[i] = [slug |-> cur.slug, token_ids |-> cur.token_ids]
    /\ Len(h2) <= cap
    /\ \A i \in 2..Len(h) : \E j \in 1..Len(h2) : h2[j] = h[i]
    /\ Len(h) < cap => \A i \in 1..Len(h) : \E j \in 1..Len(h2) : h2[j] = h[i]

\* C32: the 15m history never holds more than 20 slugs and the 5m history
\* never more than 40; a discovery update that selects an instance leaves
\* that instance in the history of its class and removes at most the entry
\* inserted earliest, and only when the bound would be exceeded.
C32_HistoryBounded ==
    /\ [](/\ Len(market_history) <= History15
          /\ Len(market_history_5m) <= History5)
    /\ [][ /\ (/\ lastOp'.op = "update_market_discovery"
                /\ current_market' # current_market) =>
                  Rotated(market_history, market_history', current_market',
                          History15)
           /\ (/\ lastOp'.op = "update_market_discovery_5m"
                /\ current_market_5m' # current_market_5m) =>
                  Rotated(market_history_5m, market_history_5m',
                          current_market_5m', History5) ]_vars

\* both histories are full and the first instance of each class has been
\* removed from them
C32_Witness ==
    /\ lastOp.op = "update_market_discovery_5m"
    /\ Len(market_history) = History15
    /\ market_history[1] # Instance15(1)
    /\ market_history[History15] = current_market
    /\ Len(market_history_5m) = History5
    /\ market_history_5m[1] # Instance5(1)
    /\ market_history_5m[History5] = current_market_5m

\* the fields of one event type
KeysOf(k) ==
    CASE k = "best_bid_ask" -> {"best_bid", "best_ask"}
      [] k = "price_change" -> {"price"}
      [] k = "last_trade_price" -> {"last_trade_price"}
      [] OTHER -> {"bids", "asks"}

\* the item with the fields of event type k only
Only(data, k) == [data EXCEPT !.keys = data.keys \cap KeysOf(k)]

\* C33 (as claimed): an item with the fields of several event types leaves
\* the registry, and makes the update call, that the same item with only
\* the fields of its highest-priority type would: best-bid/best-ask, then
\* price-changed, then last-trade-price, then order book.
C33_FirstMatchWins ==
    [][ (lastOp'.op = "event" /\ lastOp'.data.event_type = "") =>
          LET top == Only(lastOp'.data, Kind(lastOp'.data))
              r == ParseMarketData(ClobState, top)
          IN /\ markets' = r.st.markets
             /\ emitted' = r.update ]_vars

Highest(levels) == CHOOSE p \in Range(levels) : \A q \in Range(levels) : q <= p
Lowest(levels) == CHOOSE p \in Range(levels) : \A q \in Range(levels) : p <= q

\* C34 (as claimed): an order-book item with bid and ask levels, addressed
\* to a side of a registered market, leaves the highest bid level as the
\* stored bid of that side and the lowest ask level as its stored ask.
C34_BestLevels ==
    [][ (/\ lastOp'.op = "event"
         /\ Kind(lastOp'.data) = "book"
         /\ lastOp'.data.bids # <<>> /\ lastOp'.data.asks # <<>>
         /\ lastOp'.data.asset_id \in DOMAIN token_to_slug
         /\ token_to_slug[lastOp'.data.asset_id] \in DOMAIN markets) =>
          LET slug == token_to_slug[lastOp'.data.asset_id]
              sd == SideOf(markets[slug], lastOp'.data.asset_id)
          IN sd \in {"up", "down"} =>
                /\ markets'[slug][BidField(sd)] = Highest(lastOp'.data.bids)
                /\ markets'[slug][AskField(sd)] = Lowest(lastOp'.data.asks)
      ]_vars

\* C35 (as claimed): when a quote item writes to a side that no item had
\* written to since its market was registered and whose stored bid and ask
\* were set by the complementary fallback, each stored field of the side is
\* afterwards a value of that item, or unset: none keeps its synthesized
\* value.
C35_RealEventAuthoritative ==
    [][ (/\ lastOp'.op = "event"
         /\ lastOp'.data.event_type = ""
         /\ lastOp'.data.asset_id \in DOMAIN token_to_slug
         /\ token_to_slug[lastOp'.data.asset_id] \in DOMAIN markets) =>
          LET s == token_to_slug[lastOp'.data.asset_id]
              sd == SideOf(markets[s], lastOp'.data.asset_id)
              w == WrittenSides(ClobState, lastOp'.data)
          IN (/\ sd \in {"up", "down"}
              /\ sd \notin SidesOf(touched[s])
              /\ Complete(markets[s][BidField(sd)], markets[s][AskField(sd)])
              /\ w # {}) =>
                \A t \in w :
                    \/ t[3] = "both"
                    \/ t[3] = "bid" /\ markets'[s][AskField(sd)] = NoneV
                    \/ t[3] = "ask" /\ markets'[s][BidField(sd)] = NoneV
      ]_vars

\* the positions of start() inside `async with session.ws_connect(...)`
ConnectedPcs == {"send", "send2", "recv"}

\* C36 (as claimed): connection_healthy is true exactly while the client
\* holds an open connection: false before the first successful connect and
\* false again once the receive loop has ended, until the next successful
\* connect.
C36_HealthyIffConnected == connection_healthy <=> cpc \in ConnectedPcs

\* C37 (as claimed): a 15m snapshot enqueued while the current market is
\* registered and no item has been addressed to it since its registration
\* (the rotation to it) carries the unquoted default in its quote fields.
C37_SnapshotQuotesOfItsMarket ==
    [][ (/\ lastOp'.op = "record_snapshot"
         /\ db # NoDb
         /\ current_market # NoMarket
         /\ current_market.slug \in DOMAIN markets
         /\ nrecv[current_market.slug] = 0) =>
          /\ Snap15'.market_slug = current_market.slug
          /\ Snap15'.up = ZeroPrices
          /\ Snap15'.down = ZeroPrices ]_vars

\* C38 (as claimed): every instrument of the reverse index maps to a
\* registered slug whose pair contains it, and every instrument of every
\* registered slug is in the reverse index.
C38_IndexMatchesRegistry ==
    /\ \A t \in DOMAIN token_to_slug :
          /\ token_to_slug[t] \in DOMAIN markets
          /\ t \in Range(markets[token_to_slug[t]].tokens)
    /\ \A s \in DOMAIN markets :
          \A t \in Range(markets[s].tokens) : t \in DOMAIN token_to_slug

\* C39 (as claimed): a step that closes the storage handle, or replaces it
\* by another, is taken only when the queue is empty and the consumer holds
\* no task it has taken from the queue and not finished applying.
C39_NoCloseWhileApplying ==
    [][ (\/ \E u \in handle_ops' : u[1] = "close"
         \/ db # NoDb /\ db' # db) =>
          (queue = <<>> /\ inflight = NoTask) ]_vars

\* a market is registered with its instrument pair
Registered(m, ms) ==
    m.slug \in DOMAIN ms /\ ms[m.slug].tokens = m.token_ids

\* C40 (as claimed): after a discovery poll that returns the market which is
\* then the current market of its duration class, whether newly selected or
\* returned again, that market's slug is registered with the current
\* market's instrument pair.
C40_PollRegistersCurrent ==
    [][ /\ (/\ lastOp'.op = "update_market_discovery"
            /\ lastOp'.slug # NoSlug
            /\ current_market' # NoMarket
            /\ lastOp'.slug = current_market'.slug) =>
              Registered(current_market', markets')
        /\ (/\ lastOp'.op = "update_market_discovery_5m"
            /\ lastOp'.slug # NoSlug
            /\ current_market_5m' # NoMarket
            /\ lastOp'.slug = current_market_5m'.slug) =>
              Registered(current_market_5m', markets') ]_vars
====
